---- MODULE Spec2Model ----
(***************************************************************************)
(* Transactional outbox / inbox delivery of order audit events.            *)
(*                                                                         *)
(* Producer (order-svc): OrderService.BatchInsert wraps the order and item *)
(* inserts in a unit of work, calls AuditRabbitMQRepository.LogBatchInsert *)
(* (synchronous publish, outbox row on failure) and commits.  The outbox   *)
(* Worker polls the outbox table and republishes.                          *)
(* Consumer (order-audit-consumer-svc): Consumer.processMessage turns a    *)
(* delivery into audit rows, falls back to the inbox table; the inbox      *)
(* Worker replays inbox rows.                                              *)
(*                                                                         *)
(* Time is in seconds.  Every call that leaves the process (broker         *)
(* publish, SQL statement, audit persistence) draws its result from a set  *)
(* of outcomes; failures are limited by per-kind budgets held in           *)
(* variables so that each specification fixes its own fault model.         *)
(***************************************************************************)
EXTENDS Bags, FiniteSets, Integers, Naturals, Sequences, TLC

VARIABLES
    now,            \* wall clock (seconds)
    \* ---- fault budgets (environment) ----
    brokerFaults,   \* broker publish failures that may still be injected
    dbFaults,       \* failing SQL statements that may still be injected
    procFaults,     \* failing ProcessAuditLog calls that may still be injected
    crashes,        \* process crashes that may still be injected
    \* ---- producer database ----
    committed,      \* durable orders: set of [id, own] (own = ids of the order's item rows)
    outbox,         \* outbox table: set of rows
    nextOrderId,    \* orders.id sequence
    nextItemId,     \* order_items.id sequence
    nextOutboxId,   \* outbox.id sequence
    \* ---- BatchInsert call in progress ----
    pPc,            \* "idle" | "audit"
    pOrders,        \* orders of the open transaction, items as sliced at ordersvc.go:108
    pIdx,           \* LogBatchInsert loop index (1-based)
    pNow,           \* LogBatchInsert's now (audit.go:55)
    pResult,        \* outcome of the last finished call
    \* ---- outbox worker ----
    obBatch,        \* per outbox worker: rows of its poll cycle still to attempt
    \* ---- broker ----
    queue,          \* bag of message bodies waiting in the queue
    nextTag,        \* delivery tag of the next delivery on the consumer channel
    \* ---- consumer database ----
    inbox,          \* inbox table: set of rows
    nextInboxId,    \* inbox.id sequence
    audit,          \* audit_log_order table: bag of audit events
    \* ---- inbox worker ----
    ibBatch,        \* rows of the current poll cycle still to attempt (snapshots)
    gctx,           \* context of Consumer.Run's errgroup: "live" or "cancelled"
    \* ---- relay instances (Worker.Start loops) ----
    wCtx,           \* per relay: the context given to Start, "live" or "cancelled"
    wStop,          \* per relay: stopCh has been closed
    wRet,           \* per relay: Start has returned (or was never called)
    \* ---- Consumer.Run / Shutdown ----
    inflight,       \* bag of bodies whose processMessage goroutine is running
    cStop,          \* c.stop has been closed
    cDone,          \* c.done has been closed (the receive loop has ended)
    shut,           \* Consumer.Shutdown: "none" | "waiting" | "returned" | "timeout"
    conn,           \* broker connection of the consumer: "open" | "closed"
    \* ---- history (observation only) ----
    published,      \* bodies ever accepted by the broker
    failedIds,      \* ids of orders whose BatchInsert call ended without commit
    outboxLog,      \* ids of outbox rows ever inserted, with the order they carry
    relayed,        \* <<side, id>> of rows deleted by a relay after a success
    last            \* the last store-relevant step, for stating postconditions

(***************************************************************************)
(* Bounds of the model                                                     *)
(***************************************************************************)
MaxNow == 60
TickSec == 30
MaxOrders == 2
MaxItems == 2
MaxOrderId == 2
MaxBrokerFaults == 1
MaxDbFaults == 1
MaxProcFaults == 1
MaxCrashes == 1
BatchSize == 2
MaxDeliveries == 3
MaxRelayRows == 3
MaxRelayFaults == 2
MaxQueued == 3
MaxCopies == 2
MaxIntakeFaults == 2
MaxReplayRows == 2
MaxFleetRows == 2
MaxFleetFaults == 2
MaxDrainRows == 2
MaxBacklog == 52

(***************************************************************************)
(* Program constants                                                       *)
(***************************************************************************)
MaxRetries == 5
RetryIntervalSec == 30
BackoffBaseSec == 30
GroupLimit == 50

NoEvent == [op |-> "none"]

RECURSIVE Pow2(_)
Pow2(n) == IF n = 0 THEN 1 ELSE 2 * Pow2(n - 1)

RECURSIVE NextPow2From(_, _)
NextPow2From(p, n) == IF p >= n THEN p ELSE NextPow2From(2 * p, n)

\* The relay instances: the outbox worker of the order-svc process that also
\* serves BatchInsert, the outbox worker of a second order-svc process on
\* the same database, and the inbox worker of the consumer service.
LocalWorker == "ob1"
OutboxWorkers == {LocalWorker, "ob2"}
InboxWorker == "ib"
Relays == OutboxWorkers \cup {InboxWorker}

wvars == <<wCtx, wStop, wRet>>
rvars == <<inflight, cStop, cDone, shut, conn>>

\* Results an external call can produce under a remaining fault budget.
Outcomes(budget) == IF budget > 0 THEN {"ok", "fail"} ELSE {"ok"}

Spend(budget, res) == IF res = "fail" THEN budget - 1 ELSE budget

\* Results of a statement issued with context ctx: database/sql returns
\* ctx.Err() without executing it when the context is already cancelled.
StoreOutcomes(ctx, budget) ==
    IF ctx = "cancelled" THEN {"cancelled"} ELSE Outcomes(budget)

(***************************************************************************)
(* Orders, items and message bodies                                        *)
(***************************************************************************)
\* Inputs of BatchInsert: one item count per order of the batch.
BatchShapes == UNION {[1..n -> 0..MaxItems] : n \in 1..MaxOrders}

RECURSIVE SumTo(_, _)
SumTo(shape, j) == IF j = 0 THEN 0 ELSE shape[j] + SumTo(shape, j - 1)

\* ids the item rows of order j receive: BatchInsert flattens the items of
\* all orders in order and OrderItemRepository.BulkInsert returns them with
\* consecutive generated ids.
OwnItems(shape, j, firstItem) ==
    [k \in 1..shape[j] |-> firstItem + SumTo(shape, j - 1) + k - 1]

\* Capacity of the slice BulkInsert returns: an empty literal for no rows,
\* otherwise built by append (capacity at least the length, grown by doubling).
CapChoices(len) == IF len = 0 THEN {0} ELSE {len, NextPow2From(1, len)}

\* orderItems[i*n : (i+1)*n] for the order at 0-based index i with n items,
\* over the flattened ids firstItem .. firstItem+len-1 held in a slice of
\* capacity cap.  Go panics when the upper bound exceeds the capacity and
\* yields zero-valued elements (id 0) between length and capacity.
SliceOrderItems(i, n, firstItem, len, cap) ==
    IF (i + 1) * n > cap
    THEN [ok |-> FALSE, items |-> <<>>]
    ELSE [ok |-> TRUE,
          items |-> [k \in 1..n |->
                        IF i * n + k <= len THEN firstItem + i * n + k - 1 ELSE 0]]

\* The customer id submitted with an order: the model gives every order a
\* customer of its own, different from all order and item ids.
CustomerOf(id) == 100 + id

\* json.Marshal(ord): the body carries the order id, the customer id and the
\* items the order value holds at that moment.
Marshal(ord) ==
    [wf |-> TRUE, id |-> ord.id, customer |-> ord.customer, items |-> ord.items]

(***************************************************************************)
(* Queue tables (outbox, inbox): rows and SQL statements                   *)
(***************************************************************************)
\* Mutant of Backoff: the exponent is the retry count before the attempt.
BackoffOfOldCount(newRetryCount) == Pow2(newRetryCount - 1) * BackoffBaseSec

Backoff(newRetryCount) == Pow2(newRetryCount) * BackoffBaseSec

\* Mutant of Where: the due time is not compared with the clock.
WhereAnyTime(store, t) == {r \in store : r.retry_count < r.max_retries}

\* Mutant of Where: the retry count is not compared with max_retries.
WhereAnyCount(store, t) == {r \in store : r.next_retry_at <= t}

Where(store, t) ==
    {r \in store : r.next_retry_at <= t /\ r.retry_count < r.max_retries}

\* Mutant of OrderByNextRetryAt: the rows come in any order.
RECURSIVE AnyOrder(_)
AnyOrder(S) ==
    IF S = {} THEN {<<>>}
    ELSE UNION {{<<r>> \o s : s \in AnyOrder(S \ {r})} : r \in S}

RECURSIVE OrderByNextRetryAt(_)
OrderByNextRetryAt(S) ==
    IF S = {} THEN {<<>>}
    ELSE LET firsts == {r \in S : \A q \in S : r.next_retry_at <= q.next_retry_at}
         IN  UNION {{<<r>> \o s : s \in OrderByNextRetryAt(S \ {r})} : r \in firsts}

\* Mutant of Limit: the LIMIT clause is dropped.
LimitDropped(s, n) == s

Limit(s, n) == SubSeq(s, 1, IF Len(s) < n THEN Len(s) ELSE n)

\* The result sets SELECT ... WHERE ... ORDER BY next_retry_at ASC LIMIT n can
\* return (rows with equal next_retry_at come in any order).
OutboxGetPendingMessages(store, t, limit) ==
    {Limit(s, limit) : s \in OrderByNextRetryAt(Where(store, t))}

\* Mutant of OutboxUpdateRetry: the stored count is incremented in place.
OutboxUpdateRetryInPlace(store, id, retryCount, lastError, nextRetryAt) ==
    {IF r.id = id
     THEN [r EXCEPT !.retry_count = r.retry_count + 1, !.last_error = lastError,
                    !.next_retry_at = nextRetryAt]
     ELSE r : r \in store}

OutboxUpdateRetry(store, id, retryCount, lastError, nextRetryAt) ==
    {IF r.id = id
     THEN [r EXCEPT !.retry_count = retryCount, !.last_error = lastError,
                    !.next_retry_at = nextRetryAt]
     ELSE r : r \in store}

\* Mutant of OutboxDelete: the row stays.
OutboxDeleteKept(store, id) == store

OutboxDelete(store, id) == {r \in store : r.id # id}

\* Mutant of OutboxInsert: the new row replaces the rows of the table.
OutboxInsertReplacing(store, id, msg) == {[msg EXCEPT !.id = id]}

\* Mutant of OutboxInsert: the row is not stored.
OutboxInsertLost(store, id, msg) == store

OutboxInsert(store, id, msg) == store \cup {[msg EXCEPT !.id = id]}

\* Mutant of NewOutboxMessage: the row is due immediately.
NewOutboxMessageDueNow(body, t) ==
    [id |-> 0, payload |-> body, retry_count |-> 0, max_retries |-> MaxRetries,
     last_error |-> "publish failed", created_at |-> t, next_retry_at |-> t]

\* The row LogBatchInsert builds when the synchronous publish failed.
NewOutboxMessage(body, t) ==
    [id |-> 0, payload |-> body, retry_count |-> 0, max_retries |-> MaxRetries,
     last_error |-> "publish failed", created_at |-> t,
     next_retry_at |-> t + RetryIntervalSec]

(***************************************************************************)
(* Producer: OrderService.BatchInsert                                      *)
(***************************************************************************)
pvars == <<pPc, pOrders, pIdx, pNow>>
cvars == <<nextTag, inbox, nextInboxId, audit, ibBatch, gctx, wvars, rvars>>

TxOrderIds == {pOrders[j].id : j \in 1..Len(pOrders)}

\* The statements of BatchInsert before the audit call one of which a
\* database failure hits, and the state that failure leaves the unit of
\* work's transaction in: "none" when Begin failed, "open" when a
\* BulkInsert failed (ordersvc.go:81-84, 90-93, 102-105: return nil, err).
BeginSteps == {"begin", "orders", "items"}

TxAfterFailure(step) == IF step = "begin" THEN "none" ELSE "open"

\* Begin, both BulkInserts and the re-slicing of the items (ordersvc.go:77-109),
\* then LogBatchInsert's clock read.  The events carry in tx what became of
\* the transaction: "open", or ended by "commit" or "rollback".
BatchInsertBegin ==
    /\ pPc = "idle"
    /\ \E shape \in BatchShapes, db \in Outcomes(dbFaults) :
         LET n == Len(shape)
             len == SumTo(shape, n)
         IN
         /\ nextOrderId + n - 1 <= MaxOrderId
         /\ dbFaults' = Spend(dbFaults, db)
         /\ IF db = "fail"
            THEN \* Begin or a BulkInsert failed: the error is returned, nothing
                 \* is durable
                 /\ pResult' = "err"
                 /\ \E step \in BeginSteps :
                      last' = [op |-> "Begin", result |-> "err", failed |-> step,
                               tx |-> TxAfterFailure(step)]
                 /\ UNCHANGED <<pvars, nextOrderId, nextItemId, failedIds, obBatch>>
            ELSE \E cap \in CapChoices(len) :
                 LET sl(j) == SliceOrderItems(j - 1, shape[j], nextItemId, len, cap)
                     ords == [j \in 1..n |->
                                [id |-> nextOrderId + j - 1,
                                 customer |-> CustomerOf(nextOrderId + j - 1),
                                 own |-> OwnItems(shape, j, nextItemId),
                                 items |-> sl(j).items]]
                 IN
                 /\ nextOrderId' = nextOrderId + n
                 /\ nextItemId' = nextItemId + len
                 /\ IF \A j \in 1..n : sl(j).ok
                    THEN /\ pPc' = "audit"
                         /\ pOrders' = ords
                         /\ pIdx' = 1
                         /\ pNow' = now
                         /\ pResult' = "none"
                         /\ last' = [op |-> "Begin", result |-> "ok", failed |-> "none",
                                     tx |-> "open"]
                         /\ UNCHANGED <<failedIds, obBatch>>
                    ELSE \* slice bounds out of range: the process panics
                         /\ pResult' = "panic"
                         /\ failedIds' = failedIds \cup {ords[j].id : j \in 1..n}
                         /\ obBatch' = [obBatch EXCEPT ![LocalWorker] = <<>>]
                         /\ last' = [op |-> "Begin", result |-> "panic",
                                     failed |-> "slice", tx |-> "open"]
                         /\ UNCHANGED pvars
    /\ UNCHANGED <<now, brokerFaults, procFaults, crashes, committed, outbox,
                   nextOutboxId, queue, published, outboxLog, relayed, cvars>>

\* Mutant of LogBatchInsertResult: the outbox insert's error is swallowed.
LogBatchInsertResultSwallowed(pub, ins) ==
    IF pub = "ok" THEN "published" ELSE "queued"

\* How one iteration of LogBatchInsert's loop ends, given the results of the
\* publish and, after a failed publish, of the outbox insert (part_011:77-105).
LogBatchInsertResult(pub, ins) ==
    IF pub = "ok" THEN "published"
    ELSE IF ins = "ok" THEN "queued"
    ELSE "error"

\* One iteration of LogBatchInsert's loop; when the outbox insert fails the
\* error returns through BatchInsert, which rolls back (ordersvc.go:113-120).
\* The insert runs on the connection pool, outside the unit of work's
\* transaction, so the row is durable as soon as the insert returns.
LogBatchInsert ==
    /\ pPc = "audit"
    /\ pIdx <= Len(pOrders)
    /\ \E pub \in Outcomes(brokerFaults) :
       \E ins \in IF pub = "ok" THEN {"none"} ELSE Outcomes(dbFaults) :
         LET ord == pOrders[pIdx]
             body == Marshal(ord)
             res == LogBatchInsertResult(pub, ins)
         IN
         /\ brokerFaults' = Spend(brokerFaults, pub)
         /\ dbFaults' = Spend(dbFaults, ins)
         /\ queue' = IF pub = "ok" THEN queue (+) SetToBag({body}) ELSE queue
         /\ published' = IF pub = "ok" THEN published \cup {body} ELSE published
         /\ outbox' = IF pub = "fail" /\ ins = "ok"
                      THEN OutboxInsert(outbox, nextOutboxId, NewOutboxMessage(body, pNow))
                      ELSE outbox
         /\ nextOutboxId' = IF pub = "fail" /\ ins = "ok"
                            THEN nextOutboxId + 1 ELSE nextOutboxId
         /\ outboxLog' = IF pub = "fail" /\ ins = "ok"
                         THEN outboxLog \cup {[row |-> nextOutboxId, order |-> ord.id]}
                         ELSE outboxLog
         /\ last' = [op |-> "LogBatchInsert", order |-> ord.id, orders |-> TxOrderIds,
                     pub |-> pub, ins |-> ins, row |-> nextOutboxId, at |-> pNow,
                     tx |-> IF res = "error" THEN "rollback" ELSE "open"]
         /\ IF res = "error"
            THEN /\ pPc' = "idle"
                 /\ pOrders' = <<>>
                 /\ pIdx' = 0
                 /\ pNow' = 0
                 /\ pResult' = "err"
                 /\ failedIds' = failedIds \cup TxOrderIds
            ELSE /\ pIdx' = pIdx + 1
                 /\ UNCHANGED <<pPc, pOrders, pNow, pResult, failedIds>>
    /\ UNCHANGED <<now, procFaults, crashes, committed, nextOrderId, nextItemId,
                   obBatch, relayed, cvars>>

\* work.Commit() after LogBatchInsert returned nil (ordersvc.go:122-128).
Commit ==
    /\ pPc = "audit"
    /\ pIdx > Len(pOrders)
    /\ \E db \in Outcomes(dbFaults) :
         /\ dbFaults' = Spend(dbFaults, db)
         /\ IF db = "ok"
            THEN /\ committed' = committed \cup
                                   {[id |-> pOrders[j].id, own |-> pOrders[j].own] :
                                        j \in 1..Len(pOrders)}
                 /\ pResult' = "ok"
                 /\ last' = [op |-> "Commit", db |-> db, orders |-> TxOrderIds,
                             tx |-> "commit"]
                 /\ UNCHANGED failedIds
            ELSE /\ pResult' = "err"
                 /\ failedIds' = failedIds \cup TxOrderIds
                 /\ last' = [op |-> "Commit", db |-> db, orders |-> TxOrderIds,
                             tx |-> "commit"]
                 /\ UNCHANGED committed
    /\ pPc' = "idle"
    /\ pOrders' = <<>>
    /\ pIdx' = 0
    /\ pNow' = 0
    /\ UNCHANGED <<now, brokerFaults, procFaults, crashes, outbox, nextOrderId,
                   nextItemId, nextOutboxId, obBatch, queue, published, outboxLog, relayed,
                   cvars>>

\* The order-svc process dies: the open transaction is rolled back by the
\* server, the outbox worker (same process) loses its current batch.
ProducerCrash ==
    /\ crashes > 0
    /\ pPc # "idle" \/ obBatch[LocalWorker] # <<>>
    /\ crashes' = crashes - 1
    /\ pPc' = "idle"
    /\ pOrders' = <<>>
    /\ pIdx' = 0
    /\ pNow' = 0
    /\ pResult' = IF pPc = "idle" THEN pResult ELSE "crash"
    /\ failedIds' = failedIds \cup TxOrderIds
    /\ obBatch' = [obBatch EXCEPT ![LocalWorker] = <<>>]
    /\ last' = [op |-> "ProducerCrash"]
    /\ UNCHANGED <<now, brokerFaults, dbFaults, procFaults, committed, outbox,
                   nextOrderId, nextItemId, nextOutboxId, queue, published, outboxLog,
                   relayed, cvars>>

(***************************************************************************)
(* Outbox worker (order-svc/internal/worker/outbox)                        *)
(***************************************************************************)
dbvars == <<committed, nextOrderId, nextItemId, failedIds, pResult>>

\* Mutant of Written: the statement takes effect whatever it reports.
WrittenAnyway(res) == TRUE

\* An UPDATE or DELETE of a relay changes the table only when it reports
\* success: on an error, and under a cancelled context, nothing is executed.
Written(res) == res = "ok"

\* Mutant of NextRows: the loop is left when an iteration failed.
NextRowsUntilFailure(batch, failed) == IF failed THEN <<>> ELSE Tail(batch)

\* The rows processMessages' for-range loop goes on with after an iteration,
\* whether the row's action or its store write failed or not.
NextRows(batch, failed) == Tail(batch)

\* Worker.Start's select takes the ticker branch and processMessages runs
\* up to its loop: GetPendingMessages; an error or an empty result ends the
\* cycle.  The select chooses among the ready branches, so the ticker branch
\* can be taken while ctx.Done() or stopCh is ready as well.  A cycle over a
\* table with no due row changes nothing and is left to stuttering.
OutboxPoll(w) ==
    /\ ~wRet[w]
    /\ obBatch[w] = <<>>
    /\ Where(outbox, now) # {}
    /\ \E db \in StoreOutcomes(wCtx[w], dbFaults) :
         /\ dbFaults' = Spend(dbFaults, db)
         /\ IF db # "ok"
            THEN /\ obBatch' = obBatch
                 /\ last' = [op |-> "OutboxPoll", result |-> "err", at |-> now,
                             store |-> outbox, batch |-> <<>>, by |-> w,
                             ctx |-> wCtx[w], stop |-> wStop[w]]
            ELSE \E b \in OutboxGetPendingMessages(outbox, now, BatchSize) :
                 /\ obBatch' = [obBatch EXCEPT ![w] = b]
                 /\ last' = [op |-> "OutboxPoll", result |-> "ok", at |-> now,
                             store |-> outbox, batch |-> b, by |-> w,
                             ctx |-> wCtx[w], stop |-> wStop[w]]
    /\ UNCHANGED <<now, brokerFaults, procFaults, crashes, outbox, nextOutboxId, pvars,
                   dbvars, queue, published, outboxLog, relayed, cvars>>

\* One iteration of processMessages' loop over the selected rows.  Publish
\* takes no context; UpdateRetry and Delete are issued with the worker's.
OutboxProcessMessages(w) ==
    /\ obBatch[w] # <<>>
    /\ \E pub \in Outcomes(brokerFaults), db \in StoreOutcomes(wCtx[w], dbFaults) :
         LET msg == Head(obBatch[w])
             newRetryCount == msg.retry_count + 1
             nextRetryAt == now + Backoff(newRetryCount)
             ev == [op |-> "OutboxAttempt", write |-> db, msg |-> msg, at |-> now,
                    by |-> w, ctx |-> wCtx[w], rest |-> Tail(obBatch[w])]
         IN
         /\ brokerFaults' = Spend(brokerFaults, pub)
         /\ dbFaults' = Spend(dbFaults, db)
         /\ obBatch' = [obBatch EXCEPT
                           ![w] = NextRows(obBatch[w], pub # "ok" \/ db # "ok")]
         /\ IF pub = "fail"
            THEN /\ outbox' = IF Written(db)
                              THEN OutboxUpdateRetry(outbox, msg.id, newRetryCount,
                                                     "publish failed", nextRetryAt)
                              ELSE outbox
                 /\ last' = ev @@ [result |-> "fail"]
                 /\ UNCHANGED <<queue, published, relayed>>
            ELSE /\ queue' = queue (+) SetToBag({msg.payload})
                 /\ published' = published \cup {msg.payload}
                 /\ outbox' = IF Written(db) THEN OutboxDelete(outbox, msg.id) ELSE outbox
                 /\ relayed' = IF Written(db) THEN relayed \cup {<<"outbox", msg.id>>}
                               ELSE relayed
                 /\ last' = ev @@ [result |-> "ok"]
    /\ UNCHANGED <<now, procFaults, crashes, nextOutboxId, pvars, dbvars, outboxLog, cvars>>

(***************************************************************************)
(* Consumer (order-audit-consumer-svc)                                     *)
(***************************************************************************)
\* Mutant of Unmarshal: every body is accepted, as an empty order if need be.
UnmarshalLenient(body) ==
    [ok |-> TRUE,
     ord |-> [id |-> body.id, customer |-> body.customer, items |-> body.items]]

\* json.Unmarshal(body, &ord) into the consumer's Order.
Unmarshal(body) ==
    IF body.wf
    THEN [ok |-> TRUE,
          ord |-> [id |-> body.id, customer |-> body.customer, items |-> body.items]]
    ELSE [ok |-> FALSE, ord |-> [id |-> 0, customer |-> 0, items |-> <<>>]]

\* The audit event of one line item.
AuditLog(orderId, itemId, customerId) ==
    [order_id |-> orderId, order_item_id |-> itemId, customer_id |-> customerId,
     order_status |-> "created"]

\* Mutant of convertOrderToAuditLogs: the items are taken last to first.
convertOrderToAuditLogsReversed(ord) ==
    [k \in 1..Len(ord.items) |->
        AuditLog(ord.id, ord.items[Len(ord.items) + 1 - k], ord.customer)]

\* One audit event per order item, in item order (the consumer's and the
\* inbox worker's convertOrderToAuditLogs are the same code).
convertOrderToAuditLogs(ord) ==
    [k \in 1..Len(ord.items) |-> AuditLog(ord.id, ord.items[k], ord.customer)]

\* hex(sha256(payload)): equal for equal payloads, taken as collision free.
generateMessageID(body) == <<"sha256", body>>

\* The audit rows written when the first k calls of ProcessAuditLog succeed
\* (each call is one INSERT into audit_log_order).
SaveAuditLogs(table, logs, k) ==
    table (+) [l \in {logs[i] : i \in 1..k} |->
                  Cardinality({i \in 1..k : logs[i] = l})]

\* Numbers of leading audit logs that can succeed: all of them, or fewer when
\* a ProcessAuditLog failure may still be injected.
Successes(logs, budget) ==
    IF budget > 0 THEN 0..Len(logs) ELSE {Len(logs)}

InboxGetPendingMessages(store, t, limit) ==
    {Limit(s, limit) : s \in OrderByNextRetryAt(Where(store, t))}

InboxUpdateRetry(store, id, retryCount, lastError, nextRetryAt) ==
    {IF r.id = id
     THEN [r EXCEPT !.retry_count = retryCount, !.last_error = lastError,
                    !.next_retry_at = nextRetryAt]
     ELSE r : r \in store}

InboxDelete(store, id) == {r \in store : r.id # id}

\* Mutant of InboxInsertAccepted: no uniqueness constraint.
InboxInsertAlways(store, msg) == TRUE

\* INSERT INTO inbox: rejected when message_id is already present (unique).
InboxInsertAccepted(store, msg) ==
    \A r \in store : r.message_id # msg.message_id

InboxInsert(store, id, msg) == store \cup {[msg EXCEPT !.id = id]}

\* Name of the audit queue (rabbitmq.queue); both publishers publish to the
\* default exchange with the queue name as routing key and this content type.
QueueName == "rabbitmq.queue"
ContentType == "application/json"

\* Mutant of NewInboxMessage: the payload is stored damaged.
NewInboxMessageDamaged(body, tag, t) ==
    [id |-> 0, message_id |-> generateMessageID(body),
     payload |-> [body EXCEPT !.wf = FALSE],
     queue_name |-> QueueName, routing_key |-> QueueName, content_type |-> ContentType,
     retry_count |-> 0, max_retries |-> MaxRetries, last_error |-> "process failed",
     created_at |-> t, next_retry_at |-> t + RetryIntervalSec, delivery_tag |-> tag]

\* Mutant of NewInboxMessage: the row is due immediately.
NewInboxMessageDueNow(body, tag, t) ==
    [id |-> 0, message_id |-> generateMessageID(body), payload |-> body,
     queue_name |-> QueueName, routing_key |-> QueueName, content_type |-> ContentType,
     retry_count |-> 0, max_retries |-> MaxRetries, last_error |-> "process failed",
     created_at |-> t, next_retry_at |-> t, delivery_tag |-> tag]

NewInboxMessage(body, tag, t) ==
    [id |-> 0, message_id |-> generateMessageID(body), payload |-> body,
     queue_name |-> QueueName, routing_key |-> QueueName, content_type |-> ContentType,
     retry_count |-> 0, max_retries |-> MaxRetries, last_error |-> "process failed",
     created_at |-> t, next_retry_at |-> t + RetryIntervalSec, delivery_tag |-> tag]

\* Numbers of leading audit logs processMessage saves: under a cancelled
\* context the first ProcessAuditLog call already fails.
IntakeSuccesses(logs, ctx, budget) ==
    IF ctx = "cancelled" THEN {0} ELSE Successes(logs, budget)

\* Results of the inbox insert: it fails at once under a cancelled context.
InboxInsertOutcomes(ctx, budget) ==
    IF ctx = "cancelled" THEN {"cancelled"} ELSE Outcomes(budget)

\* Mutant of SettleAfterFailure: the delivery is acknowledged in any case.
SettleAlwaysAck(stored) == "ack"

\* How processMessage settles a delivery whose processing failed, given
\* whether the inbox insert went through (part_004:182-198).
SettleAfterFailure(stored) == IF stored THEN "ack" ELSE "requeue"

\* The calls processMessage makes on the delivery.
Ack == [call |-> "ack", requeue |-> FALSE]
Nack(requeue) == [call |-> "nack", requeue |-> requeue]

\* Mutant of Responses: no return after the Nack of a failed inbox insert.
ResponsesFallThrough(wf, processed, stored) ==
    IF ~wf THEN <<Nack(FALSE)>>
    ELSE IF processed \/ SettleAfterFailure(stored) = "ack" THEN <<Ack>>
    ELSE <<Nack(TRUE), Ack>>

\* The Ack/Nack calls of one processMessage call, in order: Nack(false,
\* false) and return when the body does not deserialize (part_004:141-149),
\* Nack(false, true) and return when processing failed and the inbox insert
\* failed (182-189), Ack(false) at the end otherwise (195).
Responses(wf, processed, stored) ==
    IF ~wf THEN <<Nack(FALSE)>>
    ELSE IF processed \/ SettleAfterFailure(stored) = "ack" THEN <<Ack>>
    ELSE <<Nack(TRUE)>>

pside == <<committed, outbox, nextOrderId, nextItemId, nextOutboxId, pvars, pResult,
           obBatch, published, failedIds, outboxLog, wvars>>

\* Consumer.processMessage for the delivery of body.  A call that returns
\* an error cancels the errgroup's context (part_004:98,117-119), which every
\* later call then runs under.  Ack and Nack settle the delivery only on an
\* open connection; the broker keeps an unsettled delivery in the queue.
processMessage(body) ==
    /\   LET u == Unmarshal(body)
             logs == convertOrderToAuditLogs(u.ord)
             settled == IF conn = "open" THEN queue (-) SetToBag({body}) ELSE queue
             msg == NewInboxMessage(body, nextTag, now)
             ev == [op |-> "Intake", body |-> body, tag |-> nextTag, at |-> now,
                    ctx |-> gctx, wf |-> u.ok, logs |-> Len(logs), events |-> logs,
                    had |-> ~InboxInsertAccepted(inbox, msg), answered |-> conn = "open"]
         IN
         /\ nextTag' = nextTag + 1
         /\ IF ~u.ok
            THEN \* Nack(false, false): rejected without requeue, error returned
                 /\ queue' = settled
                 /\ gctx' = "cancelled"
                 /\ last' = [ev EXCEPT !.logs = 0] @@
                            [result |-> "nack", requeue |-> FALSE, saved |-> 0,
                             proc |-> "none", ins |-> "none", err |-> TRUE,
                             responses |-> Responses(FALSE, FALSE, FALSE)]
                 /\ UNCHANGED <<inbox, nextInboxId, audit, procFaults, dbFaults>>
            ELSE \E k \in IntakeSuccesses(logs, gctx, procFaults) :
                 \E db \in IF k = Len(logs) THEN {"none"}
                           ELSE InboxInsertOutcomes(gctx, dbFaults) :
                 LET stored == db = "ok" /\ InboxInsertAccepted(inbox, msg)
                     injected == k < Len(logs) /\ gctx = "live"
                 IN
                 /\ audit' = SaveAuditLogs(audit, logs, k)
                 /\ procFaults' = IF injected THEN procFaults - 1 ELSE procFaults
                 /\ dbFaults' = Spend(dbFaults, db)
                 /\ IF k = Len(logs)
                    THEN \* Ack(false)
                         /\ queue' = settled
                         /\ last' = ev @@ [result |-> "ack", requeue |-> FALSE,
                                           saved |-> k, proc |-> "ok", ins |-> db,
                                           err |-> FALSE,
                                           responses |-> Responses(TRUE, TRUE, stored)]
                         /\ UNCHANGED <<inbox, nextInboxId, gctx>>
                    ELSE IF SettleAfterFailure(stored) = "ack"
                    THEN /\ inbox' = IF stored THEN InboxInsert(inbox, nextInboxId, msg)
                                     ELSE inbox
                         /\ nextInboxId' = IF stored THEN nextInboxId + 1 ELSE nextInboxId
                         /\ queue' = settled
                         /\ last' = ev @@ [result |-> "inbox", requeue |-> FALSE,
                                           saved |-> k,
                                           proc |-> IF injected THEN "fail" ELSE "ok",
                                           ins |-> db, err |-> FALSE,
                                           responses |-> Responses(TRUE, FALSE, stored)]
                         /\ UNCHANGED gctx
                    ELSE \* Nack(false, true): back to the queue, error returned
                         /\ gctx' = "cancelled"
                         /\ last' = ev @@ [result |-> "nack", requeue |-> TRUE,
                                           saved |-> k,
                                           proc |-> IF injected THEN "fail" ELSE "ok",
                                           ins |-> db, err |-> TRUE,
                                           responses |-> Responses(TRUE, FALSE, stored)]
                         /\ UNCHANGED <<inbox, nextInboxId, queue>>
    /\ UNCHANGED <<now, brokerFaults, crashes, ibBatch, relayed, pside>>

\* A delivery is received and handled with nothing else happening between
\* its start and its end.
ProcessMessage ==
    /\ nextTag <= MaxDeliveries
    /\ \E body \in BagToSet(queue) : processMessage(body)
    /\ UNCHANGED rvars

\* Mutant of SlotFree: the group has no limit.
SlotAlwaysFree(running) == TRUE

\* g.SetLimit(GroupLimit): g.Go blocks while GroupLimit goroutines run.
SlotFree(running) == running < GroupLimit

\* Consumer.Run's receive loop takes a delivery from msgs and starts its
\* goroutine with g.Go.  The select chooses among ready cases, so this can
\* happen while c.stop is closed as long as the loop has not ended.
RunGo ==
    /\ ~cDone
    /\ conn = "open"
    /\ SlotFree(BagCardinality(inflight))
    /\ nextTag + BagCardinality(inflight) <= MaxBacklog
    /\ \E body \in BagToSet(queue) :
         /\ CopiesIn(body, queue) > CopiesIn(body, inflight)
         /\ inflight' = inflight (+) SetToBag({body})
         /\ last' = [op |-> "RunGo", body |-> body]
    /\ UNCHANGED <<now, brokerFaults, dbFaults, procFaults, crashes, queue, relayed,
                   nextTag, inbox, nextInboxId, audit, ibBatch, gctx, wvars, pside,
                   cStop, cDone, shut, conn>>

\* A running processMessage goroutine comes to its end.
Finish ==
    /\ \E body \in BagToSet(inflight) :
         /\ processMessage(body)
         /\ inflight' = inflight (-) SetToBag({body})
    /\ UNCHANGED <<cStop, cDone, shut, conn>>

\* Consumer.Shutdown up to its select: close(c.stop).  gracefulShutdown
\* calls it after Run's context has been cancelled (app.go:86-101).
ConsumerShutdown ==
    /\ shut = "none"
    /\ wCtx[InboxWorker] = "cancelled"
    /\ cStop' = TRUE
    /\ shut' = "waiting"
    /\ last' = [op |-> "ConsumerShutdown"]
    /\ UNCHANGED <<now, brokerFaults, dbFaults, procFaults, crashes, queue, relayed,
                   nextTag, inbox, nextInboxId, audit, ibBatch, gctx, wvars, pside,
                   inflight, cDone, conn>>

\* The receive loop takes the c.stop case, or finds msgs closed, and closes
\* c.done (part_004:103-114); g.Wait() comes after it, in Run.
RunDone ==
    /\ ~cDone
    /\ cStop \/ conn = "closed"
    /\ cDone' = TRUE
    /\ last' = [op |-> "RunDone"]
    /\ UNCHANGED <<now, brokerFaults, dbFaults, procFaults, crashes, queue, relayed,
                   nextTag, inbox, nextInboxId, audit, ibBatch, gctx, wvars, pside,
                   inflight, cStop, shut, conn>>

\* Shutdown's select takes <-c.done and Shutdown returns.
ShutdownReturn ==
    /\ shut = "waiting"
    /\ cDone
    /\ shut' = "returned"
    /\ last' = [op |-> "ShutdownReturn", running |-> BagCardinality(inflight)]
    /\ UNCHANGED <<now, brokerFaults, dbFaults, procFaults, crashes, queue, relayed,
                   nextTag, inbox, nextInboxId, audit, ibBatch, gctx, wvars, pside,
                   inflight, cStop, cDone, conn>>

\* Shutdown's select takes the time.After case: c.done was not closed in
\* time.
ShutdownTimeout ==
    /\ shut = "waiting"
    /\ ~cDone
    /\ shut' = "timeout"
    /\ last' = [op |-> "ShutdownTimeout", running |-> BagCardinality(inflight)]
    /\ UNCHANGED <<now, brokerFaults, dbFaults, procFaults, crashes, queue, relayed,
                   nextTag, inbox, nextInboxId, audit, ibBatch, gctx, wvars, pside,
                   inflight, cStop, cDone, conn>>

\* gracefulShutdown goes on after Shutdown: rabbitMqClient.Close().
CloseConn ==
    /\ shut \in {"returned", "timeout"}
    /\ conn = "open"
    /\ conn' = "closed"
    /\ last' = [op |-> "CloseConn", running |-> BagCardinality(inflight),
                after |-> shut]
    /\ UNCHANGED <<now, brokerFaults, dbFaults, procFaults, crashes, queue, relayed,
                   nextTag, inbox, nextInboxId, audit, ibBatch, gctx, wvars, pside,
                   inflight, cStop, cDone, shut>>

\* The consumer process dies while a delivery is being processed, after k
\* of its audit logs were saved (and possibly after the inbox insert) and
\* before the delivery is settled: the broker redelivers it.  The restarted
\* process has a fresh context; the inbox worker (same process) loses its
\* batch.
ConsumerCrash ==
    /\ crashes > 0
    /\ nextTag <= MaxDeliveries
    /\ \E body \in BagToSet(queue) :
         LET u == Unmarshal(body)
             logs == convertOrderToAuditLogs(u.ord)
             msg == NewInboxMessage(body, nextTag, now)
         IN
         /\ u.ok
         /\ \E k \in IF gctx = "cancelled" THEN {0} ELSE 0..Len(logs) :
            \E stored \in {FALSE} \cup {k < Len(logs) /\ gctx = "live"
                                        /\ InboxInsertAccepted(inbox, msg)} :
              /\ audit' = SaveAuditLogs(audit, logs, k)
              /\ inbox' = IF stored THEN InboxInsert(inbox, nextInboxId, msg) ELSE inbox
              /\ nextInboxId' = IF stored THEN nextInboxId + 1 ELSE nextInboxId
              /\ last' = [op |-> "ConsumerCrash", body |-> body, saved |-> k,
                          stored |-> stored]
    /\ crashes' = crashes - 1
    /\ nextTag' = nextTag + 1
    /\ ibBatch' = <<>>
    /\ gctx' = "live"
    /\ UNCHANGED <<now, brokerFaults, dbFaults, procFaults, queue, relayed, pside,
                   rvars>>

\* Mutant of Exhausted: the row is abandoned one failure early.
ExhaustedEarly(newRetryCount, maxRetries) == newRetryCount + 1 >= maxRetries

\* Mutant of Exhausted: the row is abandoned one failure later.
ExhaustedLate(newRetryCount, maxRetries) == newRetryCount > maxRetries

\* The inbox worker's test for abandoning a row that does not deserialize.
Exhausted(newRetryCount, maxRetries) == newRetryCount >= maxRetries

(***************************************************************************)
(* Inbox worker (order-audit-consumer-svc/internal/worker/inbox)           *)
(***************************************************************************)
InboxPoll ==
    /\ ~wRet[InboxWorker]
    /\ ibBatch = <<>>
    /\ Where(inbox, now) # {}
    /\ \E db \in StoreOutcomes(wCtx[InboxWorker], dbFaults) :
         /\ dbFaults' = Spend(dbFaults, db)
         /\ IF db # "ok"
            THEN /\ ibBatch' = <<>>
                 /\ last' = [op |-> "InboxPoll", result |-> "err", at |-> now,
                             store |-> inbox, batch |-> <<>>, by |-> InboxWorker,
                             ctx |-> wCtx[InboxWorker], stop |-> wStop[InboxWorker]]
            ELSE \E b \in InboxGetPendingMessages(inbox, now, BatchSize) :
                 /\ ibBatch' = b
                 /\ last' = [op |-> "InboxPoll", result |-> "ok", at |-> now,
                             store |-> inbox, batch |-> b, by |-> InboxWorker,
                             ctx |-> wCtx[InboxWorker], stop |-> wStop[InboxWorker]]
    /\ UNCHANGED <<now, brokerFaults, procFaults, crashes, queue, nextTag, inbox,
                   nextInboxId, audit, gctx, relayed, pside, rvars>>

\* One iteration of processMessages' loop over the selected inbox rows.
\* ProcessAuditLog, UpdateRetry and Delete are issued with the worker's
\* context.
InboxProcessMessages ==
    /\ ibBatch # <<>>
    /\ LET msg == Head(ibBatch)
           u == Unmarshal(msg.payload)
           logs == convertOrderToAuditLogs(u.ord)
           newRetryCount == msg.retry_count + 1
           nextRetryAt == now + Backoff(newRetryCount)
           ctx == wCtx[InboxWorker]
           ev == [op |-> "InboxAttempt", write |-> "none", msg |-> msg, at |-> now,
                  saved |-> 0, by |-> InboxWorker, ctx |-> ctx, rest |-> Tail(ibBatch),
                  events |-> logs]
       IN
       /\ \E db \in StoreOutcomes(ctx, dbFaults) :
            /\ dbFaults' = Spend(dbFaults, db)
            /\ IF ~u.ok
               THEN /\ ibBatch' = NextRows(ibBatch, TRUE)
                    /\ inbox' = IF ~Written(db) THEN inbox
                                ELSE IF Exhausted(newRetryCount, msg.max_retries)
                                     THEN InboxDelete(inbox, msg.id)
                                     ELSE InboxUpdateRetry(inbox, msg.id, newRetryCount,
                                                           "unmarshal failed", nextRetryAt)
                    /\ last' = [ev EXCEPT !.write = db] @@ [result |-> "malformed"]
                    /\ UNCHANGED <<audit, procFaults, relayed>>
               ELSE \E k \in IntakeSuccesses(logs, ctx, procFaults) :
                    /\ audit' = SaveAuditLogs(audit, logs, k)
                    /\ ibBatch' = NextRows(ibBatch, k < Len(logs) \/ db # "ok")
                    /\ IF k = Len(logs)
                       THEN /\ inbox' = IF Written(db) THEN InboxDelete(inbox, msg.id)
                                        ELSE inbox
                            /\ relayed' = IF Written(db)
                                          THEN relayed \cup {<<"inbox", msg.id>>}
                                          ELSE relayed
                            /\ last' = [ev EXCEPT !.write = db, !.saved = k]
                                          @@ [result |-> "ok"]
                            /\ UNCHANGED procFaults
                       ELSE /\ procFaults' = IF ctx = "cancelled" THEN procFaults
                                             ELSE procFaults - 1
                            /\ UNCHANGED relayed
                            /\ inbox' = IF Written(db)
                                        THEN InboxUpdateRetry(inbox, msg.id, newRetryCount,
                                                              "process failed", nextRetryAt)
                                        ELSE inbox
                            /\ last' = [ev EXCEPT !.write = db, !.saved = k]
                                          @@ [result |-> "fail"]
    /\ UNCHANGED <<now, brokerFaults, crashes, queue, nextTag, nextInboxId, gctx, pside,
                   rvars>>

\* The cancellation signal of a relay's process is raised: workerCancel() in
\* order-svc's gracefulShutdown, cancel() in the consumer's Run, where the
\* same context is the parent of the consumer's group context.
Cancel(r) ==
    /\ ~wRet[r]
    /\ wCtx[r] = "live"
    /\ wCtx' = [wCtx EXCEPT ![r] = "cancelled"]
    /\ gctx' = IF r = InboxWorker THEN "cancelled" ELSE gctx
    /\ last' = [op |-> "Cancel", by |-> r]
    /\ UNCHANGED <<now, brokerFaults, dbFaults, procFaults, crashes, queue, relayed,
                   nextTag, inbox, nextInboxId, audit, ibBatch, wStop, wRet,
                   committed, outbox, nextOrderId, nextItemId, nextOutboxId, pvars,
                   pResult, obBatch, published, failedIds, outboxLog, rvars>>

\* Worker.Stop: close(stopCh).
Stop(r) ==
    /\ ~wRet[r]
    /\ ~wStop[r]
    /\ wStop' = [wStop EXCEPT ![r] = TRUE]
    /\ last' = [op |-> "Stop", by |-> r]
    /\ UNCHANGED <<now, brokerFaults, dbFaults, procFaults, crashes, queue, relayed,
                   nextTag, inbox, nextInboxId, audit, ibBatch, gctx, wCtx, wRet,
                   committed, outbox, nextOrderId, nextItemId, nextOutboxId, pvars,
                   pResult, obBatch, published, failedIds, outboxLog, rvars>>

\* The rows of relay r's poll cycle still to attempt.
BatchOf(r) == IF r = InboxWorker THEN ibBatch ELSE obBatch[r]

\* Worker.Start's select takes the ctx.Done() or the stopCh branch: Start
\* returns.  The select is reached only between poll cycles.
WorkerReturn(r) ==
    /\ ~wRet[r]
    /\ BatchOf(r) = <<>>
    /\ wCtx[r] = "cancelled" \/ wStop[r]
    /\ wRet' = [wRet EXCEPT ![r] = TRUE]
    /\ last' = [op |-> "WorkerReturn", by |-> r]
    /\ UNCHANGED <<now, brokerFaults, dbFaults, procFaults, crashes, queue, relayed,
                   nextTag, inbox, nextInboxId, audit, ibBatch, gctx, wCtx, wStop,
                   committed, outbox, nextOrderId, nextItemId, nextOutboxId, pvars,
                   pResult, obBatch, published, failedIds, outboxLog, rvars>>

(***************************************************************************)
(* Clock                                                                   *)
(***************************************************************************)
Tick ==
    /\ now + TickSec <= MaxNow
    /\ now' = now + TickSec
    /\ last' = [op |-> "Tick"]
    /\ UNCHANGED <<brokerFaults, dbFaults, procFaults, crashes, queue, relayed, cvars,
                   pside>>

(***************************************************************************)
(* Specifications                                                          *)
(***************************************************************************)
vars == <<now, brokerFaults, dbFaults, procFaults, crashes, committed, outbox,
          nextOrderId, nextItemId, nextOutboxId, pPc, pOrders, pIdx, pNow, pResult,
          obBatch, queue, nextTag, inbox, nextInboxId, audit, ibBatch, gctx, wCtx, wStop,
          wRet, inflight, cStop, cDone, shut, conn, published,
          failedIds, outboxLog, relayed, last>>

\* Both services freshly started on empty tables.
Init ==
    /\ now = 0
    /\ brokerFaults = MaxBrokerFaults
    /\ dbFaults = MaxDbFaults
    /\ procFaults = MaxProcFaults
    /\ crashes = MaxCrashes
    /\ committed = {}
    /\ outbox = {}
    /\ nextOrderId = 1
    /\ nextItemId = 1
    /\ nextOutboxId = 1
    /\ pPc = "idle"
    /\ pOrders = <<>>
    /\ pIdx = 0
    /\ pNow = 0
    /\ pResult = "none"
    /\ obBatch = [w \in OutboxWorkers |-> <<>>]
    /\ queue = EmptyBag
    /\ nextTag = 1
    /\ inbox = {}
    /\ nextInboxId = 1
    /\ audit = EmptyBag
    /\ ibBatch = <<>>
    /\ gctx = "live"
    /\ wCtx = [r \in Relays |-> "live"]
    /\ wStop = [r \in Relays |-> FALSE]
    /\ inflight = EmptyBag
    /\ cStop = FALSE
    /\ cDone = FALSE
    /\ shut = "none"
    /\ conn = "open"
    /\ wRet = [r \in Relays |-> r \notin {LocalWorker, InboxWorker}]
    /\ published = {}
    /\ failedIds = {}
    /\ outboxLog = {}
    /\ relayed = {}
    /\ last = NoEvent

Next ==
    \/ BatchInsertBegin
    \/ LogBatchInsert
    \/ Commit
    \/ ProducerCrash
    \/ \E w \in OutboxWorkers : OutboxPoll(w)
    \/ \E w \in OutboxWorkers : OutboxProcessMessages(w)
    \/ ProcessMessage
    \/ ConsumerCrash
    \/ InboxPoll
    \/ InboxProcessMessages
    \/ Tick

Spec == Init /\ [][Next]_vars

\* A relay started on a table that already holds rows: the rows 1..k of
\* one side, each well formed, with a retry count and a due time drawn from
\* RelayRetryCounts and RelayDueTimes.
RelayRetryCounts == {0, 2, MaxRetries - 1}
RelayDueTimes == {0, TickSec, 2 * TickSec}

RelayBody(i) ==
    Marshal([id |-> i, customer |-> CustomerOf(i), items |-> <<2 * i - 1, 2 * i>>])

RelayOutboxRow(i, rc, due) ==
    [NewOutboxMessage(RelayBody(i), 0) EXCEPT
        !.id = i, !.retry_count = rc, !.next_retry_at = due]

RelayInboxRow(i, rc, due) ==
    [NewInboxMessage(RelayBody(i), i, 0) EXCEPT
        !.id = i, !.retry_count = rc, !.next_retry_at = due]

RelayTables ==
    UNION {[1..k -> RelayRetryCounts \X RelayDueTimes] : k \in 0..MaxRelayRows}

InitRelay ==
    /\ now = 0
    /\ brokerFaults = MaxRelayFaults
    /\ procFaults = MaxRelayFaults
    /\ dbFaults = MaxDbFaults
    /\ crashes = 0
    /\ committed = {}
    /\ nextOrderId = 1
    /\ nextItemId = 1
    /\ pPc = "idle"
    /\ pOrders = <<>>
    /\ pIdx = 0
    /\ pNow = 0
    /\ pResult = "none"
    /\ obBatch = [w \in OutboxWorkers |-> <<>>]
    /\ queue = EmptyBag
    /\ nextTag = 1
    /\ audit = EmptyBag
    /\ ibBatch = <<>>
    /\ gctx = "live"
    /\ wCtx = [r \in Relays |-> "live"]
    /\ wStop = [r \in Relays |-> FALSE]
    /\ inflight = EmptyBag
    /\ cStop = FALSE
    /\ cDone = FALSE
    /\ shut = "none"
    /\ conn = "open"
    /\ wRet = [r \in Relays |-> r \notin {LocalWorker, InboxWorker}]
    /\ published = {}
    /\ failedIds = {}
    /\ outboxLog = {}
    /\ relayed = {}
    /\ last = NoEvent
    /\ \E side \in {"outbox", "inbox"}, t \in RelayTables :
         /\ outbox = IF side = "outbox"
                     THEN {RelayOutboxRow(i, t[i][1], t[i][2]) : i \in DOMAIN t}
                     ELSE {}
         /\ inbox = IF side = "inbox"
                    THEN {RelayInboxRow(i, t[i][1], t[i][2]) : i \in DOMAIN t}
                    ELSE {}
         /\ nextOutboxId = IF side = "outbox" THEN Len(t) + 1 ELSE 1
         /\ nextInboxId = IF side = "inbox" THEN Len(t) + 1 ELSE 1

NextRelay ==
    \/ \E w \in OutboxWorkers : OutboxPoll(w)
    \/ \E w \in OutboxWorkers : OutboxProcessMessages(w)
    \/ InboxPoll
    \/ InboxProcessMessages
    \/ Tick

SpecRelay == InitRelay /\ [][NextRelay]_vars

\* A body json.Unmarshal rejects (published by something other than the
\* producer, or written to the inbox by hand or by an older version).
Malformed == [wf |-> FALSE, id |-> 0, customer |-> 0, items |-> <<>>]

\* The consumer started on a queue that already holds deliveries: up to
\* MaxCopies copies each of three well-formed events (with two items, one
\* item, no item) and of a malformed body,
\* at most MaxQueued in all.
IntakeBodies ==
    {RelayBody(1),
     Marshal([id |-> 2, customer |-> CustomerOf(2), items |-> <<3>>]),
     Marshal([id |-> 3, customer |-> CustomerOf(3), items |-> <<>>]),
     Malformed}

RECURSIVE BagSize(_)
BagSize(B) ==
    IF DOMAIN B = {} THEN 0
    ELSE LET x == CHOOSE y \in DOMAIN B : TRUE
         IN  B[x] + BagSize([y \in DOMAIN B \ {x} |-> B[y]])

IntakeQueues ==
    {[x \in {y \in IntakeBodies : c[y] > 0} |-> c[x]] :
        c \in {d \in [IntakeBodies -> 0..MaxCopies] :
                  LET n == BagSize(d) IN n >= 1 /\ n <= MaxQueued}}

InitIntake ==
    /\ now = 0
    /\ brokerFaults = 0
    /\ procFaults = MaxIntakeFaults
    /\ dbFaults = MaxDbFaults
    /\ crashes = MaxCrashes
    /\ committed = {}
    /\ outbox = {}
    /\ nextOrderId = 1
    /\ nextItemId = 1
    /\ nextOutboxId = 1
    /\ pPc = "idle"
    /\ pOrders = <<>>
    /\ pIdx = 0
    /\ pNow = 0
    /\ pResult = "none"
    /\ obBatch = [w \in OutboxWorkers |-> <<>>]
    /\ queue \in IntakeQueues
    /\ nextTag = 1
    /\ inbox = {}
    /\ nextInboxId = 1
    /\ audit = EmptyBag
    /\ ibBatch = <<>>
    /\ gctx = "live"
    /\ wCtx = [r \in Relays |-> "live"]
    /\ wStop = [r \in Relays |-> FALSE]
    /\ inflight = EmptyBag
    /\ cStop = FALSE
    /\ cDone = FALSE
    /\ shut = "none"
    /\ conn = "open"
    /\ wRet = [r \in Relays |-> r \notin {LocalWorker, InboxWorker}]
    /\ published = {}
    /\ failedIds = {}
    /\ outboxLog = {}
    /\ relayed = {}
    /\ last = NoEvent

NextIntake ==
    \/ ProcessMessage
    \/ ConsumerCrash
    \/ InboxPoll
    \/ InboxProcessMessages
    \/ Tick

SpecIntake == InitIntake /\ [][NextIntake]_vars

\* The inbox worker started on an inbox table whose rows may hold payloads
\* that do not deserialize.
ReplayTables ==
    UNION {[1..k -> RelayRetryCounts \X RelayDueTimes \X BOOLEAN] :
              k \in 1..MaxReplayRows}

ReplayInboxRow(i, rc, due, wf) ==
    IF wf THEN RelayInboxRow(i, rc, due)
    ELSE [RelayInboxRow(i, rc, due) EXCEPT
             !.payload = Malformed, !.message_id = generateMessageID(<<Malformed, i>>)]

InitReplay ==
    /\ now = 0
    /\ brokerFaults = 0
    /\ procFaults = MaxProcFaults
    /\ dbFaults = MaxDbFaults
    /\ crashes = 0
    /\ committed = {}
    /\ outbox = {}
    /\ nextOrderId = 1
    /\ nextItemId = 1
    /\ nextOutboxId = 1
    /\ pPc = "idle"
    /\ pOrders = <<>>
    /\ pIdx = 0
    /\ pNow = 0
    /\ pResult = "none"
    /\ obBatch = [w \in OutboxWorkers |-> <<>>]
    /\ queue = EmptyBag
    /\ nextTag = 1
    /\ audit = EmptyBag
    /\ ibBatch = <<>>
    /\ gctx = "live"
    /\ wCtx = [r \in Relays |-> "live"]
    /\ wStop = [r \in Relays |-> FALSE]
    /\ inflight = EmptyBag
    /\ cStop = FALSE
    /\ cDone = FALSE
    /\ shut = "none"
    /\ conn = "open"
    /\ wRet = [r \in Relays |-> r \notin {LocalWorker, InboxWorker}]
    /\ published = {}
    /\ failedIds = {}
    /\ outboxLog = {}
    /\ relayed = {}
    /\ last = NoEvent
    /\ \E t \in ReplayTables :
         /\ inbox = {ReplayInboxRow(i, t[i][1], t[i][2], t[i][3]) : i \in DOMAIN t}
         /\ nextInboxId = Len(t) + 1

NextReplay ==
    \/ InboxPoll
    \/ InboxProcessMessages
    \/ Tick

SpecReplay == InitReplay /\ [][NextReplay]_vars

\* Relays in operation and being shut down: either two order-svc processes
\* whose outbox workers share one outbox table, or the consumer service's
\* inbox worker, started on a table of well-formed rows some of which have
\* used up their retries (they stay in the table and become due as time
\* passes).  Statements fail here only through a cancelled context.
FleetRetryCounts == {MaxRetries - 1, MaxRetries}
FleetDueTimes == {0, TickSec}

FleetTables ==
    UNION {[1..k -> FleetRetryCounts \X FleetDueTimes] : k \in 1..MaxFleetRows}

InitFleet ==
    /\ now = 0
    /\ brokerFaults = MaxFleetFaults
    /\ procFaults = MaxFleetFaults
    /\ dbFaults = 0
    /\ crashes = 0
    /\ committed = {}
    /\ nextOrderId = 1
    /\ nextItemId = 1
    /\ pPc = "idle"
    /\ pOrders = <<>>
    /\ pIdx = 0
    /\ pNow = 0
    /\ pResult = "none"
    /\ obBatch = [w \in OutboxWorkers |-> <<>>]
    /\ queue = EmptyBag
    /\ nextTag = 1
    /\ audit = EmptyBag
    /\ ibBatch = <<>>
    /\ gctx = "live"
    /\ wCtx = [r \in Relays |-> "live"]
    /\ wStop = [r \in Relays |-> FALSE]
    /\ inflight = EmptyBag
    /\ cStop = FALSE
    /\ cDone = FALSE
    /\ shut = "none"
    /\ conn = "open"
    /\ published = {}
    /\ failedIds = {}
    /\ outboxLog = {}
    /\ relayed = {}
    /\ last = NoEvent
    /\ \E side \in {"outbox", "inbox"}, t \in FleetTables :
         /\ wRet = [r \in Relays |-> (r \in OutboxWorkers) # (side = "outbox")]
         /\ outbox = IF side = "outbox"
                     THEN {RelayOutboxRow(i, t[i][1], t[i][2]) : i \in DOMAIN t}
                     ELSE {}
         /\ inbox = IF side = "inbox"
                    THEN {RelayInboxRow(i, t[i][1], t[i][2]) : i \in DOMAIN t}
                    ELSE {}
         /\ nextOutboxId = IF side = "outbox" THEN Len(t) + 1 ELSE 1
         /\ nextInboxId = IF side = "inbox" THEN Len(t) + 1 ELSE 1

NextFleet ==
    \/ \E w \in OutboxWorkers : OutboxPoll(w)
    \/ \E w \in OutboxWorkers : OutboxProcessMessages(w)
    \/ InboxPoll
    \/ InboxProcessMessages
    \/ \E r \in Relays : Cancel(r)
    \/ \E r \in Relays : Stop(r)
    \/ \E r \in Relays : WorkerReturn(r)
    \/ Tick

SpecFleet == InitFleet /\ [][NextFleet]_vars

\* The consumer service under load and being shut down: the queue holds
\* MaxBacklog deliveries of one well-formed event, more than the group runs
\* at a time; no call fails by itself.
RunBody == Marshal([id |-> 2, customer |-> CustomerOf(2), items |-> <<3>>])

InitRun ==
    /\ now = 0
    /\ brokerFaults = 0
    /\ procFaults = 0
    /\ dbFaults = 0
    /\ crashes = 0
    /\ committed = {}
    /\ outbox = {}
    /\ nextOrderId = 1
    /\ nextItemId = 1
    /\ nextOutboxId = 1
    /\ pPc = "idle"
    /\ pOrders = <<>>
    /\ pIdx = 0
    /\ pNow = 0
    /\ pResult = "none"
    /\ obBatch = [w \in OutboxWorkers |-> <<>>]
    /\ queue = [b \in {RunBody} |-> MaxBacklog]
    /\ nextTag = 1
    /\ inbox = {}
    /\ nextInboxId = 1
    /\ audit = EmptyBag
    /\ ibBatch = <<>>
    /\ gctx = "live"
    /\ wCtx = [r \in Relays |-> "live"]
    /\ wStop = [r \in Relays |-> FALSE]
    /\ wRet = [r \in Relays |-> r # InboxWorker]
    /\ inflight = EmptyBag
    /\ cStop = FALSE
    /\ cDone = FALSE
    /\ shut = "none"
    /\ conn = "open"
    /\ published = {}
    /\ failedIds = {}
    /\ outboxLog = {}
    /\ relayed = {}
    /\ last = NoEvent

NextRun ==
    \/ RunGo
    \/ Finish
    \/ Cancel(InboxWorker)
    \/ ConsumerShutdown
    \/ RunDone
    \/ ShutdownReturn
    \/ ShutdownTimeout
    \/ CloseConn

SpecRun == InitRun /\ [][NextRun]_vars

\* Both services in operation on tables that already hold a row: order 1
\* with the items 1 and 2 is committed; its publish failed, so the outbox
\* holds its row; the relay published it once without getting the row
\* deleted, and the consumer failed on it, so the inbox holds it too.  Each
\* row has gone through LoadedRetryCounts failed attempts and is due at one
\* of LoadedDueTimes.
LoadedRetryCounts == {0, 2}
LoadedDueTimes == {TickSec}

InitLoaded ==
    /\ now = 0
    /\ brokerFaults = MaxBrokerFaults
    /\ dbFaults = MaxDbFaults
    /\ procFaults = MaxProcFaults
    /\ crashes = 0
    /\ committed = {[id |-> 1, own |-> <<1, 2>>]}
    /\ nextOrderId = 2
    /\ nextItemId = 3
    /\ nextOutboxId = 2
    /\ pPc = "idle"
    /\ pOrders = <<>>
    /\ pIdx = 0
    /\ pNow = 0
    /\ pResult = "none"
    /\ obBatch = [w \in OutboxWorkers |-> <<>>]
    /\ queue = EmptyBag
    /\ nextTag = 1
    /\ nextInboxId = 2
    /\ audit = EmptyBag
    /\ ibBatch = <<>>
    /\ gctx = "live"
    /\ wCtx = [r \in Relays |-> "live"]
    /\ wStop = [r \in Relays |-> FALSE]
    /\ wRet = [r \in Relays |-> r \notin {LocalWorker, InboxWorker}]
    /\ inflight = EmptyBag
    /\ cStop = FALSE
    /\ cDone = FALSE
    /\ shut = "none"
    /\ conn = "open"
    /\ published = {RelayBody(1)}
    /\ failedIds = {}
    /\ outboxLog = {[row |-> 1, order |-> 1]}
    /\ relayed = {}
    /\ last = NoEvent
    /\ \E rc \in LoadedRetryCounts, due \in LoadedDueTimes :
         outbox = {RelayOutboxRow(1, rc, due)}
    /\ \E rc \in LoadedRetryCounts, due \in LoadedDueTimes :
         inbox = {RelayInboxRow(1, rc, due)}

NextLoaded ==
    \/ BatchInsertBegin
    \/ LogBatchInsert
    \/ Commit
    \/ \E w \in OutboxWorkers : OutboxPoll(w)
    \/ \E w \in OutboxWorkers : OutboxProcessMessages(w)
    \/ ProcessMessage
    \/ InboxPoll
    \/ InboxProcessMessages
    \/ Tick

SpecLoaded == InitLoaded /\ [][NextLoaded]_vars

\* Both relays at work on tables that hold rows near the end of their
\* retries: one outbox row, and up to MaxDrainRows inbox rows some of which
\* hold a payload that does not deserialize; all rows are due.
DrainRetryCounts == {0, MaxRetries - 2, MaxRetries - 1}

DrainTables ==
    UNION {[1..k -> DrainRetryCounts \X BOOLEAN] : k \in 1..MaxDrainRows}

InitDrain ==
    /\ now = 0
    /\ brokerFaults = MaxBrokerFaults
    /\ procFaults = MaxProcFaults
    /\ dbFaults = MaxDbFaults
    /\ crashes = 0
    /\ committed = {}
    /\ nextOrderId = 1
    /\ nextItemId = 1
    /\ nextOutboxId = 2
    /\ pPc = "idle"
    /\ pOrders = <<>>
    /\ pIdx = 0
    /\ pNow = 0
    /\ pResult = "none"
    /\ obBatch = [w \in OutboxWorkers |-> <<>>]
    /\ queue = EmptyBag
    /\ nextTag = 1
    /\ audit = EmptyBag
    /\ ibBatch = <<>>
    /\ gctx = "live"
    /\ wCtx = [r \in Relays |-> "live"]
    /\ wStop = [r \in Relays |-> FALSE]
    /\ wRet = [r \in Relays |-> r \notin {LocalWorker, InboxWorker}]
    /\ inflight = EmptyBag
    /\ cStop = FALSE
    /\ cDone = FALSE
    /\ shut = "none"
    /\ conn = "open"
    /\ published = {}
    /\ failedIds = {}
    /\ outboxLog = {}
    /\ relayed = {}
    /\ last = NoEvent
    /\ \E rc \in DrainRetryCounts : outbox = {RelayOutboxRow(1, rc, 0)}
    /\ \E t \in DrainTables :
         /\ inbox = {ReplayInboxRow(i, t[i][1], 0, t[i][2]) : i \in DOMAIN t}
         /\ nextInboxId = Len(t) + 1

NextDrain ==
    \/ \E w \in OutboxWorkers : OutboxPoll(w)
    \/ \E w \in OutboxWorkers : OutboxProcessMessages(w)
    \/ InboxPoll
    \/ InboxProcessMessages
    \/ Tick

SpecDrain == InitDrain /\ [][NextDrain]_vars

(***************************************************************************)
(* Properties of the producer and of the whole pipeline                    *)
(***************************************************************************)
CommittedIds == {o.id : o \in committed}

\* The audit event of line item it of order id is carried by a message body.
Carries(body, id, it) ==
    /\ body.wf
    /\ body.id = id
    /\ \E k \in 1..Len(body.items) : body.items[k] = it

\* Nothing is in flight on the producer side: no call is running and the
\* outbox holds nothing the relay could still publish.
ProducerQuiet ==
    pPc = "idle" /\ outbox = {} /\ \A w \in OutboxWorkers : obBatch[w] = <<>>

\* Nothing is in flight anywhere.
Quiescent ==
    /\ ProducerQuiet
    /\ queue = EmptyBag
    /\ inbox = {}
    /\ ibBatch = <<>>

\* C1 (at-least-once delivery): for every committed order, an audit event for
\* each of its line items is eventually published, stored in the inbox or
\* saved to audit storage.  Once the producer side is quiet nothing more can
\* be published for the orders committed so far, so by then every line item
\* of every committed order must have its event.
C1_EveryItemDelivered ==
    ProducerQuiet =>
        \A o \in committed : \A k \in 1..Len(o.own) :
            \/ \E b \in published : Carries(b, o.id, o.own[k])
            \/ \E r \in inbox : Carries(r.payload, o.id, o.own[k])
            \/ BagIn(AuditLog(o.id, o.own[k], CustomerOf(o.id)), audit)

\* C2: in every reachable state each committed order has had its audit event
\* published to the broker or has an outbox row carrying that event.
C2_PublishedOrQueued ==
    \A o \in committed :
        \/ \E b \in published : b.id = o.id
        \/ \E r \in outbox : r.payload.id = o.id

\* C2 witness: a committed order whose event was never published and is held
\* only by its outbox row, after the producer process crashed in a later call.
C2_Witness ==
    /\ pResult = "crash"
    /\ \E o \in committed :
         /\ \A b \in published : b.id # o.id
         /\ \E r \in outbox : r.payload.id = o.id

\* C3: the outbox row of an order is durable only if the BatchInsert call that
\* wrote it commits: once a call ended without commit, no outbox row written
\* by that call exists.
C3_OutboxRowInSameTx ==
    \A e \in outboxLog :
        (e.order \in failedIds /\ e.order \notin TxOrderIds) =>
            \A r \in outbox : r.id # e.row

\* C4: when the publish and the outbox insert of an order both fail, the call
\* is over with an error and no order of the batch is, or ever becomes,
\* committed.
C4_RollbackOnDoubleFailure ==
    /\ (last.op = "LogBatchInsert" /\ last.pub = "fail" /\ last.ins = "fail") =>
          /\ pPc = "idle"
          /\ pResult = "err"
          /\ last.orders \cap CommittedIds = {}
    /\ failedIds \cap CommittedIds = {}

\* C4 witness: the second order of a batch failed both ways.
C4_Witness ==
    /\ last.op = "LogBatchInsert"
    /\ last.pub = "fail"
    /\ last.ins = "fail"
    /\ Cardinality(last.orders) = 2
    /\ pResult = "err"

\* C5: when the publish of an order fails and its outbox insert succeeds, the
\* call goes on without an error and exactly one outbox row exists for the
\* order, with retry_count 0, max_retries 5, last_error set and next_retry_at
\* 30 s after the creation time; a call whose commit succeeds returns success
\* with all its orders committed, whether or not publishes failed.
C5_QueuedThenCommitted ==
    /\ (last.op = "LogBatchInsert" /\ last.pub = "fail" /\ last.ins = "ok") =>
          /\ pPc = "audit"
          /\ pResult # "err"
          /\ Cardinality({e \in outboxLog : e.order = last.order}) = 1
          /\ Cardinality({r \in outbox : r.payload.id = last.order}) = 1
          /\ \A r \in outbox : r.payload.id = last.order =>
                /\ r.id = last.row
                /\ r.retry_count = 0
                /\ r.max_retries = 5
                /\ r.last_error # ""
                /\ r.created_at = last.at
                /\ r.next_retry_at = r.created_at + 30
    /\ (last.op = "Commit" /\ last.db = "ok") =>
          /\ pResult = "ok"
          /\ last.orders \subseteq CommittedIds

\* C5 witness: a batch of two orders, one published and one queued, committed.
C5_Witness ==
    /\ last.op = "Commit"
    /\ last.db = "ok"
    /\ pResult = "ok"
    /\ Cardinality(last.orders) = 2
    /\ \E e \in outboxLog : e.order \in last.orders
    /\ \E b \in published : b.id \in last.orders

\* C6 (exactly once in effect): once the system is quiescent, audit storage
\* holds the audit event of every line item of every committed order exactly
\* once.
C6_ExactlyOnceInEffect ==
    Quiescent =>
        \A o \in committed : \A k \in 1..Len(o.own) :
            CopiesIn(AuditLog(o.id, o.own[k], CustomerOf(o.id)), audit) = 1

(***************************************************************************)
(* Properties of the relays                                                *)
(***************************************************************************)
PollOps == {"OutboxPoll", "InboxPoll"}
AttemptOps == {"OutboxAttempt", "InboxAttempt"}

Ids(store) == {r.id : r \in store}

BatchIds(batch) == {batch[i].id : i \in 1..Len(batch)}

\* C7: a poll returns only rows that are due (next_retry_at <= now) and not
\* exhausted (retry_count < max_retries), at most batchSize of them, each
\* once, in ascending next_retry_at order, and no due row left out is due
\* earlier than a returned one.
C7_PollSelectsEarliestDue ==
    (last.op \in PollOps /\ last.result = "ok") =>
        LET b == last.batch
            due == {r \in last.store :
                       r.next_retry_at <= last.at /\ r.retry_count < r.max_retries}
            got == {b[i] : i \in 1..Len(b)}
        IN  /\ got \subseteq due
            /\ Len(b) <= BatchSize
            /\ Cardinality(got) = Len(b)
            /\ \A i, j \in 1..Len(b) :
                  i < j => b[i].next_retry_at <= b[j].next_retry_at
            /\ \A r \in due \ got :
                  /\ Len(b) = BatchSize
                  /\ \A g \in got : g.next_retry_at <= r.next_retry_at

\* C7 witness: three due rows with next_retry_at t1 < t2 < t3 and a batch size
\* of 2; the poll returned the rows of t1 and t2, the row of t3 stays.
C7_Witness ==
    /\ last.op = "OutboxPoll"
    /\ last.result = "ok"
    /\ BatchSize = 2
    /\ \E r1, r2, r3 \in last.store :
         /\ r1.next_retry_at < r2.next_retry_at
         /\ r2.next_retry_at < r3.next_retry_at
         /\ r3.next_retry_at <= last.at
         /\ \A r \in {r1, r2, r3} : r.retry_count < r.max_retries
         /\ last.batch = <<r1, r2>>
         /\ r3 \in outbox

\* C8: when the action of a selected row succeeded and the relay deleted the
\* row, the row is gone from the table and no later poll returns it.
C8_DeletedForGood ==
    /\ (last.op = "OutboxAttempt" /\ last.result = "ok" /\ last.write = "ok") =>
          last.msg.id \notin Ids(outbox)
    /\ (last.op = "InboxAttempt" /\ last.result = "ok" /\ last.write = "ok") =>
          last.msg.id \notin Ids(inbox)
    /\ (last.op = "OutboxPoll" /\ last.result = "ok") =>
          \A id \in BatchIds(last.batch) : <<"outbox", id>> \notin relayed
    /\ (last.op = "InboxPoll" /\ last.result = "ok") =>
          \A id \in BatchIds(last.batch) : <<"inbox", id>> \notin relayed
    /\ \A x \in relayed :
          /\ x[1] = "outbox" => x[2] \notin Ids(outbox) \cup BatchIds(obBatch[LocalWorker])
          /\ x[1] = "inbox" => x[2] \notin Ids(inbox) \cup BatchIds(ibBatch)

\* C8 witness: a poll that ran after a row of the outbox was published and
\* deleted, with rows still to select.
C8_Witness ==
    /\ last.op = "OutboxPoll"
    /\ last.result = "ok"
    /\ last.batch # <<>>
    /\ \E x \in relayed : x[1] = "outbox"

NeverEarlier(store, storeAfter) ==
    \A r \in store : \A q \in storeAfter :
        q.id = r.id => q.next_retry_at >= r.next_retry_at

LaterAfterFailure(store, storeAfter, id) ==
    \A r \in store : \A q \in storeAfter :
        (r.id = id /\ q.id = id) => q.next_retry_at > r.next_retry_at

C10_Step ==
    /\ NeverEarlier(outbox, outbox')
    /\ NeverEarlier(inbox, inbox')
    /\ last'.op \in AttemptOps =>
          /\ last'.at = now
          /\ last'.msg.next_retry_at <= now
          /\ \A r \in (IF last'.op = "OutboxAttempt" THEN outbox ELSE inbox) :
                r.id = last'.msg.id => r.next_retry_at <= now
    /\ (last'.op = "OutboxAttempt" /\ last'.result = "fail" /\ last'.write = "ok") =>
          LaterAfterFailure(outbox, outbox', last'.msg.id)
    /\ (last'.op = "InboxAttempt" /\ last'.result = "fail" /\ last'.write = "ok") =>
          LaterAfterFailure(inbox, inbox', last'.msg.id)

\* C10: no step decreases a row's next_retry_at, every failed attempt whose
\* update is written makes it strictly larger, and a row is attempted only
\* when its next_retry_at has passed.
C10_BackoffMonotone == [][C10_Step]_vars

\* C10 witness: the second failed attempt on a row that started with
\* retry_count 0: its due time moved on at both failures.
C10_Witness ==
    /\ last.op = "OutboxAttempt"
    /\ last.result = "fail"
    /\ last.write = "ok"
    /\ last.msg.retry_count = 1
    /\ last.msg.next_retry_at > 0
    /\ \E r \in outbox :
         r.id = last.msg.id /\ r.next_retry_at > last.msg.next_retry_at

(***************************************************************************)
(* Properties of retry exhaustion                                          *)
(***************************************************************************)
\* C11: every row present in the outbox or the inbox has retry_count <
\* max_retries; no row with retry_count = max_retries is left in a store.
C11_NoExhaustedRowStored ==
    \A r \in outbox \cup inbox : r.retry_count < r.max_retries

\* C12: an outbox row whose failed publish brought its retry_count to
\* max_retries is deleted from the outbox by the relay.
C12_OutboxAbandoned ==
    (/\ last.op = "OutboxAttempt"
     /\ last.result = "fail"
     /\ last.write = "ok"
     /\ last.msg.retry_count + 1 >= last.msg.max_retries) =>
        last.msg.id \notin Ids(outbox)

\* One replay attempt on an inbox row whose payload does not deserialize.
C13_Step ==
    (last'.op = "InboxAttempt" /\ ~last'.msg.payload.wf) =>
        LET m == last'.msg IN
        /\ audit' = audit
        /\ m.retry_count < m.max_retries
        /\ \E r \in inbox : r.id = m.id /\ r.retry_count = m.retry_count
        /\ last'.write = "ok" =>
              IF m.retry_count + 1 >= m.max_retries
              THEN m.id \notin Ids(inbox')
              ELSE \E r \in inbox' :
                      /\ r.id = m.id
                      /\ r.retry_count = m.retry_count + 1
                      /\ r.next_retry_at = now + 30 * 2^(m.retry_count + 1)
                      /\ r.payload = m.payload

\* C13: replaying an inbox row whose payload does not deserialize processes
\* no audit event; when retry_count + 1 >= max_retries the row is deleted,
\* otherwise it is updated to retry_count + 1 with the exponential backoff;
\* such a row is attempted only while retry_count < max_retries, so at most
\* max_retries times.
C13_MalformedReplay == [][C13_Step]_vars

\* C13 witness: a malformed row with retry_count 4 and max_retries 5 was
\* replayed and is gone.
C13_Witness ==
    /\ last.op = "InboxAttempt"
    /\ ~last.msg.payload.wf
    /\ last.write = "ok"
    /\ last.msg.retry_count = 4
    /\ last.msg.max_retries = 5
    /\ last.msg.id \notin Ids(inbox)

(***************************************************************************)
(* Properties of the message intake                                        *)
(***************************************************************************)
\* The delivery handled by the step left the queue.
Settled(body) == queue' = queue (-) SetToBag({body})

\* C14 step: a delivery whose payload does not deserialize.
C14_Step ==
    (last'.op = "Intake" /\ ~last'.body.wf) =>
        /\ last'.result = "nack"
        /\ ~last'.requeue
        /\ last'.err
        /\ Settled(last'.body)
        /\ inbox' = inbox
        /\ audit' = audit

\* C14: a delivery whose payload does not deserialize is rejected without
\* requeue, an error is returned, no inbox row is written and no audit event
\* is processed.
C14_MalformedRejected == [][C14_Step]_vars

\* C14 witness: a malformed delivery was rejected and is gone.
C14_Witness ==
    /\ last.op = "Intake"
    /\ ~last.body.wf
    /\ last.result = "nack"
    /\ ~last.requeue
    /\ ~BagIn(last.body, queue)

\* C15 step: a delivery all of whose audit events were saved is acknowledged
\* without an inbox write; a delivery acknowledged after a failed audit event
\* has an inbox row.
C15_Step ==
    /\ (last'.op = "Intake" /\ last'.body.wf /\ last'.saved = last'.logs) =>
          /\ last'.result = "ack"
          /\ ~last'.err
          /\ Settled(last'.body)
          /\ inbox' = inbox
    /\ (/\ last'.op = "Intake"
        /\ last'.body.wf
        /\ last'.saved < last'.logs
        /\ Settled(last'.body)) =>
          \E r \in inbox' : r.message_id = generateMessageID(last'.body)

\* C15: when all audit events of a delivery are processed the delivery is
\* acknowledged and no inbox row is written; no delivery leaves the queue
\* as handled while one of its audit events failed and no inbox row holds it.
C15_AckOnlyWhenSafe == [][C15_Step]_vars

\* C15 witness: a delivery with audit events was processed and acknowledged
\* with the inbox still empty.
C15_Witness ==
    /\ last.op = "Intake"
    /\ last.body.wf
    /\ last.logs > 0
    /\ last.saved = last.logs
    /\ last.result = "ack"
    /\ inbox = {}

\* C16 step: processing failed and the inbox insert succeeded.
C16_Step ==
    (/\ last'.op = "Intake"
     /\ last'.body.wf
     /\ last'.saved < last'.logs
     /\ last'.ins = "ok"
     /\ ~last'.had) =>
        /\ Cardinality(inbox' \ inbox) = 1
        /\ inbox \subseteq inbox'
        /\ \A r \in inbox' \ inbox :
              /\ r.payload = last'.body
              /\ r.queue_name = QueueName
              /\ r.routing_key = QueueName
              /\ r.content_type = "application/json"
              /\ r.delivery_tag = nextTag
              /\ r.message_id = <<"sha256", last'.body>>
              /\ r.retry_count = 0
              /\ r.max_retries = 5
              /\ r.last_error = "process failed"
              /\ r.next_retry_at = now + 30
        /\ Settled(last'.body)
        /\ ~last'.err

\* C16: when processing of a delivery fails and the inbox insert succeeds,
\* exactly one inbox row is created, holding the raw payload, queue, routing
\* key, content type, delivery tag, message_id = hash of the payload,
\* retry_count 0, max_retries 5, the processing error and next_retry_at =
\* now + 30 s, and the delivery is acknowledged.
C16_InboxRowOnFailure == [][C16_Step]_vars

\* C16 witness: the second audit event of a delivery failed after the first
\* was saved; the delivery is held by one inbox row.
C16_Witness ==
    /\ last.op = "Intake"
    /\ last.result = "inbox"
    /\ last.saved = 1
    /\ last.logs = 2
    /\ Cardinality({r \in inbox : r.payload = last.body}) = 1
    /\ \E r \in inbox : r.delivery_tag = last.tag /\ r.next_retry_at = last.at + 30

\* C17: when processing of a delivery fails, the delivery is acknowledged
\* whether the inbox insert succeeded or failed; it is never negatively
\* acknowledged or requeued.
C17_AckRegardless ==
    (last.op = "Intake" /\ last.body.wf /\ last.saved < last.logs) =>
        /\ last.result # "nack"
        /\ ~last.requeue

\* C18: a delivery is settled and leaves the queue even when its processing
\* fails again while its payload already has an inbox row; it is not put
\* back to the queue.
C18_DuplicateSettled ==
    (last.op = "Intake" /\ last.body.wf /\ last.saved < last.logs /\ last.had) =>
        /\ ~last.requeue
        /\ \A r \in inbox :
              r.message_id = generateMessageID(last.body) => r.delivery_tag # last.tag

\* C19: no two inbox rows share a message_id, and a delivery whose payload
\* already has an inbox row creates no second one.
C19_UniqueMessageId ==
    /\ \A r1, r2 \in inbox : r1.message_id = r2.message_id => r1 = r2
    /\ \A r1, r2 \in inbox : r1.payload = r2.payload => r1 = r2
    /\ (last.op = "Intake" /\ last.had) =>
          /\ Cardinality({r \in inbox : r.payload = last.body}) = 1
          /\ \A r \in inbox : r.delivery_tag # last.tag

\* C19 witness: the insert for a redelivered payload reached the table and
\* was rejected; the first row is the only one.
C19_Witness ==
    /\ last.op = "Intake"
    /\ last.had
    /\ last.saved < last.logs
    /\ last.ins = "ok"
    /\ Cardinality({r \in inbox : r.payload = last.body}) = 1

\* C20: a delivery with a well-formed payload, for which no processing or
\* inbox failure of its own occurs, is processed completely and
\* acknowledged, whatever happened to other deliveries before it.
C20_DeliveryIsolation ==
    (/\ last.op = "Intake"
     /\ last.body.wf
     /\ last.proc # "fail"
     /\ last.ins # "fail") =>
        /\ last.saved = last.logs
        /\ last.result = "ack"

(***************************************************************************)
(* Properties of relay instances: selection, concurrency, shutdown         *)
(***************************************************************************)
\* The elements of a sequence.
Rows(batch) == {batch[i] : i \in DOMAIN batch}

SpentRows(store) == {r \in store : r.retry_count >= r.max_retries}

\* C21: a row whose retry_count has reached max_retries is not selected by
\* a poll, whatever its next_retry_at, and no selected row is attempted with
\* such a count; outbox and inbox alike.
C21_SpentRowNeverSelected ==
    /\ (last.op \in PollOps) =>
          \A r \in SpentRows(last.store) : r.id \notin BatchIds(last.batch)
    /\ (last.op \in AttemptOps) => last.msg.retry_count < last.msg.max_retries
    /\ \A w \in OutboxWorkers : \A m \in Rows(obBatch[w]) : m.retry_count < m.max_retries
    /\ \A m \in Rows(ibBatch) : m.retry_count < m.max_retries

\* C21 witness: a poll returned fewer rows than the limit although a row
\* with its retries used up was due.
C21_Witness ==
    /\ last.op \in PollOps
    /\ last.result = "ok"
    /\ last.batch # <<>>
    /\ Len(last.batch) < BatchSize
    /\ \E r \in SpentRows(last.store) : r.next_retry_at <= last.at

\* C22: with two outbox workers on one table a row can be selected by both
\* and published twice; a failed attempt writes the count of its own
\* snapshot plus one, so two failed attempts on the same snapshot with
\* retry_count = n leave the row at n + 1.
C22_SnapshotCountWritten ==
    (last.op = "OutboxAttempt" /\ last.result = "fail" /\ last.write = "ok") =>
        \A r \in outbox :
            r.id = last.msg.id => r.retry_count = last.msg.retry_count + 1

\* C22 witness: no store write failed; one payload was published twice and
\* is in the queue twice, and both permitted publish failures hit the one
\* row left, which both workers attempted from the same snapshot.
C22_Witness ==
    /\ last.op = "OutboxAttempt"
    /\ last.result = "fail"
    /\ last.write = "ok"
    /\ \A w \in OutboxWorkers : wCtx[w] = "live" /\ ~wRet[w]
    /\ \E p \in BagToSet(queue) : CopiesIn(p, queue) = 2
    /\ brokerFaults = MaxFleetFaults - 2
    /\ Cardinality(outbox) = 1
    /\ \E r \in outbox :
          r.id = last.msg.id /\ r.retry_count = last.msg.retry_count + 1

\* The rows of relay r's poll cycle still to attempt after the step.
BatchAfter(r) == IF r = InboxWorker THEN ibBatch' ELSE obBatch'[r]

\* C23 step, for the relay instance that takes it: a poll starts only when
\* the rows of the previous cycle are used up; an attempt is made on the
\* first row still to attempt and on no other, and no row still to attempt
\* is due earlier than the one attempted.
C23_Step ==
    /\ (last'.op \in PollOps) => BatchOf(last'.by) = <<>>
    /\ (last'.op \in AttemptOps) =>
          /\ BatchOf(last'.by) # <<>>
          /\ last'.msg = Head(BatchOf(last'.by))
          /\ BatchAfter(last'.by) = Tail(BatchOf(last'.by))
          /\ \A m \in Rows(BatchAfter(last'.by)) :
                last'.msg.next_retry_at <= m.next_retry_at

\* C23: within one relay instance rows are processed one at a time, in
\* ascending next_retry_at order, and a poll cycle starts only after the
\* previous one has attempted all its rows.
C23_SequentialInOrder == [][C23_Step]_vars

\* C23 witness: the first row of a cycle was attempted while a row due
\* later is still waiting in the same cycle.
C23_Witness ==
    /\ last.op \in AttemptOps
    /\ last.rest # <<>>
    /\ last.rest = BatchOf(last.by)
    /\ last.msg.next_retry_at < Head(last.rest).next_retry_at

\* C24: once the cancellation signal of a relay has been raised or its Stop
\* has been called, the relay starts no new poll cycle.
C24_NoPollAfterSignal ==
    (last.op \in PollOps) => (last.ctx = "live" /\ ~last.stop)

\* C25: a row attempted in a poll cycle during which the cancellation
\* arrived has the outcome of the attempt recorded in the store: deleted
\* after a successful action, retry_count advanced after a failed one.
C25_OutcomeRecordedOnShutdown ==
    (last.op \in AttemptOps /\ last.ctx = "cancelled") =>
        /\ last.result = "ok" =>
              last.msg.id \notin Ids(IF last.op = "OutboxAttempt" THEN outbox ELSE inbox)
        /\ last.result = "fail" =>
              \A r \in (IF last.op = "OutboxAttempt" THEN outbox ELSE inbox) :
                  r.id = last.msg.id => r.retry_count > last.msg.retry_count

\* A relay attempt in which the row's action or its store write failed.
FailedAttempt(ev) ==
    ev.op \in AttemptOps /\ (ev.result # "ok" \/ ev.write # "ok")

\* C26 step: a failed poll, a failed action and a failed store write leave
\* the relay running; after a failed attempt the remaining rows of the batch
\* are still to be attempted; a relay returns only on its signal.
C26_Step ==
    /\ (last'.op \in PollOps \cup AttemptOps) => wRet' = wRet
    /\ (last'.op \in PollOps /\ last'.result = "err") => BatchAfter(last'.by) = <<>>
    /\ FailedAttempt(last') => BatchAfter(last'.by) = Tail(BatchOf(last'.by))
    /\ \A r \in Relays :
          (wRet'[r] /\ ~wRet[r]) => (wCtx[r] = "cancelled" \/ wStop[r])

\* C26: every failure inside a relay (of the batch selection, of a row's
\* action, of the store update or delete) is absorbed: the relay loop goes
\* on, the remaining rows of the batch are still attempted and the relay
\* polls again on later ticks.
C26_FailuresAbsorbed == [][C26_Step]_vars

\* C26 witness: after a failed statement and a failed action the relay has
\* attempted a further row of a batch and a row is still waiting in it.
C26_Witness ==
    /\ last.op \in AttemptOps
    /\ FailedAttempt(last)
    /\ last.rest # <<>>
    /\ BatchOf(last.by) = last.rest
    /\ dbFaults < MaxDbFaults
    /\ brokerFaults + procFaults < 2 * MaxRelayFaults
    /\ ~wRet[last.by]

(***************************************************************************)
(* Properties of the fan-out and of BatchInsert                            *)
(***************************************************************************)
\* The steps that derive audit events from a payload, and that payload.
FanOutOps == {"Intake", "InboxAttempt"}

PayloadOf(ev) == IF ev.op = "Intake" THEN ev.body ELSE ev.msg.payload

\* C27 step: the events derived from a well-formed payload, and what the
\* step added to audit storage.
C27_Step ==
    (last'.op \in FanOutOps /\ PayloadOf(last').wf) =>
        LET body == PayloadOf(last')
            ev == last'.events
            k == Len(body.items)
        IN
        /\ Len(ev) = k
        /\ \A i \in 1..k :
              /\ ev[i].order_id = body.id
              /\ ev[i].order_item_id = body.items[i]
              /\ ev[i].customer_id = body.customer
              /\ ev[i].order_status = "created"
        /\ last'.saved \in 0..k
        /\ \A l \in BagToSet(audit') \cup BagToSet(audit) :
              CopiesIn(l, audit') =
                 CopiesIn(l, audit) + Cardinality({i \in 1..last'.saved : ev[i] = l})
        /\ (k = 0) => (last'.result \in {"ack", "ok"})

\* C27: for an order with k line items the consumer and the inbox worker
\* derive exactly k audit events, one per item in item order, each with the
\* order's id, the item's id, the order's customer id and status "created";
\* the events are processed in that order up to the first failure; an order
\* without items yields no event and counts as a success.
C27_FanOut == [][C27_Step]_vars

\* C27 witness: of the two events of an order replayed from the inbox the
\* first was saved and the second failed.
C27_Witness ==
    /\ last.op = "InboxAttempt"
    /\ Len(last.events) = 2
    /\ last.saved = 1
    /\ last.result = "fail"
    /\ BagIn(last.events[1], audit)
    /\ ~BagIn(last.events[2], audit)

\* C28: for every batch, BatchInsert goes through without a failure of its
\* own and gives each order exactly the inserted items that carry its id,
\* so the audit event of an order lists that order's own items.
C28_OwnItemsAssigned ==
    /\ (last.op = "Begin") => (last.result # "panic")
    /\ \A j \in 1..Len(pOrders) : pOrders[j].items = pOrders[j].own
    /\ \A b \in published :
          \A j \in 1..Len(pOrders) : b.id = pOrders[j].id => b.items = pOrders[j].own

(***************************************************************************)
(* Properties of Consumer.Run and Consumer.Shutdown                        *)
(***************************************************************************)
\* Deliveries in the queue whose processing has not started.
Waiting == BagCardinality(queue) - BagCardinality(inflight)

\* C29: at any time at most 50 deliveries are being processed by the
\* consumer; a delivery is started only while fewer than 50 are running.
C29_AtMostFiftyRunning ==
    /\ BagCardinality(inflight) <= GroupLimit
    /\ (last.op = "RunGo") => BagCardinality(inflight) - 1 < GroupLimit

\* C29 witness: 50 deliveries are being processed and further ones wait in
\* the queue while the consumer is in normal operation.
C29_Witness ==
    /\ BagCardinality(inflight) = GroupLimit
    /\ Waiting > 0
    /\ ~cStop
    /\ conn = "open"
    /\ gctx = "live"

\* C30: Consumer.Shutdown returns on c.done only when no started delivery
\* is still being processed, and gracefulShutdown does not close the broker
\* connection while one is, unless Shutdown ran into its timeout.
C30_ShutdownWaitsForRunning ==
    /\ (shut = "returned") => inflight = EmptyBag
    /\ (conn = "closed" /\ shut # "timeout") => inflight = EmptyBag

(***************************************************************************)
(* Ownership of the queue tables, retry counts, deletion                   *)
(***************************************************************************)
ProducerOps == {"Begin", "LogBatchInsert", "Commit", "ProducerCrash"}
IntakeOps == {"Intake", "ConsumerCrash"}

\* The step only adds rows to the table, at most one, under a fresh id.
OnlyInserts(store, storeAfter) ==
    /\ store \subseteq storeAfter
    /\ Cardinality(storeAfter \ store) <= 1
    /\ \A q \in storeAfter \ store : q.id \notin Ids(store)

\* Every row the step changed or removed is the row the relay attempted.
OnlyAttempted(store, storeAfter, op, ev) ==
    \A r \in store \ storeAfter : ev.op = op /\ r.id = ev.msg.id

\* C31 step: what a step of the producer, of the intake and of a relay may
\* do to the rows of the outbox and of the inbox.
C31_Step ==
    /\ (last'.op \in ProducerOps) => (OnlyInserts(outbox, outbox') /\ inbox' = inbox)
    /\ (last'.op \in IntakeOps) => (OnlyInserts(inbox, inbox') /\ outbox' = outbox)
    /\ OnlyAttempted(outbox, outbox', "OutboxAttempt", last')
    /\ OnlyAttempted(inbox, inbox', "InboxAttempt", last')
    /\ (last'.op = "OutboxAttempt") => (inbox' = inbox /\ Ids(outbox') \subseteq Ids(outbox))
    /\ (last'.op = "InboxAttempt") => (outbox' = outbox /\ Ids(inbox') \subseteq Ids(inbox))
    /\ \A r \in outbox : \A q \in outbox' : q.id = r.id => q.payload = r.payload
    /\ \A r \in inbox : \A q \in inbox' : q.id = r.id => q.payload = r.payload

\* C31: a row of the outbox or of the inbox is updated or deleted only by a
\* relay of its table, and only when that relay attempted it; BatchInsert
\* and LogBatchInsert only insert outbox rows, the message intake only
\* inserts inbox rows, and no step changes the payload of a row.
C31_RowsOwnedByRelay == [][C31_Step]_vars

\* C31 witness: the intake has inserted a second inbox row next to the row
\* the inbox held, after LogBatchInsert inserted a second outbox row next
\* to the row of order 1, which is still in the outbox.
C31_Witness ==
    /\ last.op = "Intake"
    /\ last.result = "inbox"
    /\ Cardinality(inbox) = 2
    /\ \E r \in inbox : r.id = 1
    /\ \E r \in outbox : r.id = 1
    /\ Cardinality(outboxLog) = 2

\* A relay attempt whose failure was recorded: the action failed and the
\* update of the row was written.
RecordedFailure(ev) ==
    /\ ev.op \in AttemptOps
    /\ ev.result \in {"fail", "malformed"}
    /\ ev.write = "ok"

\* The retry counts of a table before and after a step that belongs to a
\* relay of the table (op) or to something else.
RetryCountStep(store, storeAfter, op, ev) ==
    /\ \A q \in storeAfter : 0 <= q.retry_count /\ q.retry_count <= q.max_retries
    /\ \A r \in store : \A q \in storeAfter :
          q.id = r.id =>
             /\ q.retry_count >= r.retry_count
             /\ q.retry_count =
                   IF ev.op = op /\ RecordedFailure(ev) /\ ev.msg.id = r.id
                   THEN r.retry_count + 1
                   ELSE r.retry_count

C32_Step ==
    /\ RetryCountStep(outbox, outbox', "OutboxAttempt", last')
    /\ RetryCountStep(inbox, inbox', "InboxAttempt", last')

\* C32: every outbox and inbox row has 0 <= retry_count <= max_retries; no
\* step decreases a row's retry_count, a recorded failed attempt on a row
\* increases it by exactly one and nothing else changes it, with one relay
\* and with two relays on the same table.
C32_RetryCountDiscipline == [][C32_Step]_vars

\* The ids of the rows a step removed from a table.
Removed(store, storeAfter) == Ids(store) \ Ids(storeAfter)

\* C33 step: every removal of a row, and every failed attempt.
C33_Step ==
    /\ \A id \in Removed(outbox, outbox') :
          /\ last'.op = "OutboxAttempt"
          /\ last'.msg.id = id
          /\ last'.result = "ok"
          /\ last'.msg.payload \in published'
          /\ queue' = queue (+) SetToBag({last'.msg.payload})
    /\ \A id \in Removed(inbox, inbox') :
          /\ last'.op = "InboxAttempt"
          /\ last'.msg.id = id
          /\ \/ /\ last'.result = "ok"
                /\ last'.msg.payload.wf
                /\ last'.saved = Len(last'.events)
                /\ \A l \in Rows(last'.events) : CopiesIn(l, audit') > CopiesIn(l, audit)
             \/ /\ last'.result = "malformed"
                /\ ~last'.msg.payload.wf
                /\ last'.msg.retry_count + 1 >= last'.msg.max_retries
    /\ (last'.op = "OutboxAttempt" /\ last'.result = "fail") =>
          last'.msg.id \in Ids(outbox')
    /\ (last'.op = "InboxAttempt" /\ last'.result = "fail") =>
          last'.msg.id \in Ids(inbox')

\* C33: an outbox row is deleted only by an attempt whose publish of its
\* payload succeeded; an inbox row is deleted only by an attempt in which
\* all its audit events were processed or, for a payload that does not
\* deserialize, when retry_count + 1 >= max_retries; an attempt that failed
\* in publishing or processing never deletes the row, whatever its count.
C33_DeletedOnlyWhenDone == [][C33_Step]_vars

\* C33 witness: the replay of a well-formed inbox row on its last retry
\* failed in processing and the row is still there, with its retries used
\* up; the outbox row was deleted after its publish, and the other inbox
\* row, which did not deserialize, was deleted on its last retry.
C33_Witness ==
    /\ last.op = "InboxAttempt"
    /\ last.result = "fail"
    /\ last.write = "ok"
    /\ last.msg.retry_count + 1 = last.msg.max_retries
    /\ \E r \in inbox : r.id = last.msg.id /\ r.retry_count = r.max_retries
    /\ <<"outbox", 1>> \in relayed
    /\ RelayBody(1) \in published
    /\ nextInboxId = MaxDrainRows + 1
    /\ Cardinality(inbox) = MaxDrainRows - 1
    /\ \A x \in relayed : x[1] # "inbox"

(***************************************************************************)
(* Properties of BatchInsert's error paths and of the intake's responses   *)
(***************************************************************************)
\* C34: audit events are emitted only for orders that end up committed: no
\* order of a BatchInsert call that ended with an error has an audit event
\* published to the broker, nor an outbox row from which the relay would
\* publish one later.
C34_EventsOnlyForCommitted ==
    /\ \A b \in published : b.id \notin failedIds
    /\ \A r \in outbox : r.payload.id \notin failedIds

\* The step is a return of BatchInsert (with a result or an error, not a
\* panic) from a call whose Begin had succeeded.
ReturnsAfterBegin(ev) ==
    /\ ev.op \in {"Begin", "LogBatchInsert", "Commit"}
    /\ pPc = "idle"
    /\ ev.tx # "none"
    /\ ev.op = "Begin" => ev.result = "err"

\* C35: every BatchInsert call whose Begin succeeded has ended its
\* transaction with a Commit or a Rollback by the time it returns, whatever
\* the path of the return.
C35_TransactionEnded ==
    ReturnsAfterBegin(last) => last.tx \in {"commit", "rollback"}

\* The inbox insert of the delivery was not made or did not go through.
NotStored(ev) == ev.ins # "ok" \/ ev.had

\* C36 step: the responses processMessage gave to the delivery it handled,
\* and what became of the delivery in the queue.
C36_Step ==
    (last'.op = "Intake") =>
        /\ Len(last'.responses) = 1
        /\ LET a == last'.responses[1] IN
           /\ a.call \in {"ack", "nack"}
           /\ a = (IF ~last'.wf THEN Nack(FALSE)
                   ELSE IF last'.saved < last'.logs /\ NotStored(last') THEN Nack(TRUE)
                   ELSE Ack)
           /\ (a.call = "nack") = (last'.result = "nack")
           /\ a.requeue = last'.requeue
           /\ queue' = IF last'.answered /\ a # Nack(TRUE)
                       THEN queue (-) SetToBag({last'.body})
                       ELSE queue

\* C36: processMessage answers each delivery it handles with exactly one
\* call, an ack or a nack, never both and never none: nack without requeue
\* when the body does not deserialize, nack with requeue when processing
\* failed and the inbox insert failed, ack otherwise; the delivery leaves
\* the queue unless it was requeued.
C36_ExactlyOneResponse == [][C36_Step]_vars

\* C36 witness: processing failed, the inbox insert failed, the delivery was
\* answered with one nack with requeue and is still in the queue.
C36_Witness ==
    /\ last.op = "Intake"
    /\ last.wf
    /\ last.saved < last.logs
    /\ last.ins = "fail"
    /\ last.responses = <<Nack(TRUE)>>
    /\ BagIn(last.body, queue)

\* C37: every inbox row the intake created holds a payload that
\* deserializes, the very body of its delivery, so the inbox relay never
\* takes its deserialization-failure branch on such a row.
C37_InboxPayloadsDeserialize ==
    /\ \A r \in inbox :
          /\ Unmarshal(r.payload).ok
          /\ r.message_id = generateMessageID(r.payload)
    /\ \A m \in Rows(ibBatch) : Unmarshal(m.payload).ok
    /\ (last.op = "InboxAttempt") => last.result # "malformed"
    /\ (last.op = "Intake" /\ ~last.wf) => last.result = "nack"

\* C37 witness: a row the intake had written for a failed delivery was
\* replayed from the inbox, deserialized, went through and was deleted,
\* after the intake had handled a later delivery.
C37_Witness ==
    /\ last.op = "InboxAttempt"
    /\ last.result = "ok"
    /\ last.write = "ok"
    /\ Len(last.events) > 0
    /\ last.msg.delivery_tag < nextTag - 1
    /\ inbox = {}

(***************************************************************************)
(* Properties of failed store writes                                       *)
(***************************************************************************)
\* A relay attempt whose UpdateRetry or Delete did not go through.
FailedWrite(ev) == ev.op \in AttemptOps /\ ev.write # "ok"

TableOf(ev) == IF ev.op = "OutboxAttempt" THEN outbox ELSE inbox

\* C38 step: an attempt whose store write failed leaves both tables as they
\* were, the attempted row as it was selected and due; and when the relay's
\* next poll follows, it returns the row as it was.
C38_Step ==
    /\ FailedWrite(last') =>
          /\ outbox' = outbox
          /\ inbox' = inbox
          /\ relayed' = relayed
          /\ last'.msg \in TableOf(last')
          /\ last'.msg \in Where(TableOf(last'), now)
          /\ \A r \in TableOf(last') :
                r.id = last'.msg.id =>
                   /\ r.retry_count = last'.msg.retry_count
                   /\ r.next_retry_at = last'.msg.next_retry_at
    /\ (/\ FailedWrite(last)
        /\ last'.op \in PollOps
        /\ last'.by = last.by
        /\ last'.result = "ok") =>
          last.msg \in Rows(last'.batch)

====
